---- MODULE Spec2Model ----
(***************************************************************************)
(* Bulk load orchestrator of dbcsv's csvload command (config.load), its    *)
(* value converter (Column.FromString) and the CSV row reader (ReadCSV)    *)
(* that feeds it.                                                          *)
(*                                                                         *)
(* Go strings are modelled as sequences of one-character strings, so that  *)
(* len(s), s[:n] and character scans are computed as the code computes     *)
(* them.                                                                   *)
(***************************************************************************)
EXTENDS Integers, Sequences, FiniteSets, TLC

(***************************************************************************)
(* Bounds of the model.                                                    *)
(***************************************************************************)
\* largest cfg.Concurrency explored
MaxWorkers == 2
\* largest number of records the source delivers (header included)
MaxRows == 5
\* largest cfg.ChunkSize explored in the concurrency scenarios
MaxChunk == 3
\* largest number of target columns in the conversion scenarios
MaxCols == 2
\* largest number of records of the source in the conversion scenarios
MaxConvRows == 3
\* largest number of data records CreateTable samples
MaxSamples == 2
\* largest number of ReadRows and of ReadSheets calls on one Config
MaxReads == 2
\* largest length of a generated CSV text
MaxText == 4
\* largest number of rows of a generated sheet
MaxSheetRows == 3
\* largest skip argument of a reader
MaxSkip == 1
MaxSheets == 3
MaxQuoted == 4
MaxExecRows == 3
MaxTasks == 2
MaxPoolRows == 4
MaxBufs == 6
MaxTyped == 3
MaxPrecision == 20
MaxMessages == 3
MaxEnqueued == 4
MaxCommands == 3
MaxCopyRows == 4
MaxBatchSize == 2
MaxHeader == 2
MaxLongHeader == 33

(***************************************************************************)
(* Program constants.                                                      *)
(***************************************************************************)
defaultChunkSize == 1024
Unknown == 0
String == 1
IntType == 2
Float == 3
Date == 4
tBLOB == "BLOB"
tCLOB == "CLOB"
tDATE == "DATE"
tVARCHAR2 == "VARCHAR2"
tNUMBER == "NUMBER"
\* dateFormat = "2006-01-02T15:04:05"
dateFormat == <<"2","0","0","6","-","0","1","-","0","2","T","1","5",":","0","4",":","0","5">>

(***************************************************************************)
(* Strings.                                                                *)
(***************************************************************************)
Digits == {"0","1","2","3","4","5","6","7","8","9"}
HexDigits == Digits \cup {"a","b","c","d","e","f","A","B","C","D","E","F"}
EmptyStr == <<>>

Min(a, b) == IF a < b THEN a ELSE b

\* s[:n]
Prefix(s, n) == SubSeq(s, 1, n)

\* strconv.Atoi(s) returns no error
AtoiOK(s) ==
  LET body == IF Len(s) > 0 /\ s[1] \in {"-", "+"} THEN Tail(s) ELSE s
  IN  Len(body) > 0 /\ \A i \in 1..Len(body) : body[i] \in Digits

\* time.ParseInLocation(layout, s, time.Local) returns no error, for a layout
\* that is a prefix of dateFormat: every digit of the layout stands for a
\* digit of the value, every other character for itself.
TimeParseOK(layout, s) ==
  /\ Len(s) = Len(layout)
  /\ \A i \in 1..Len(s) :
       IF layout[i] \in Digits THEN s[i] \in Digits ELSE s[i] = layout[i]

\* hex.DecodeString(s) returns no error
HexDecodeOK(s) ==
  /\ Len(s) % 2 = 0
  /\ \A i \in 1..Len(s) : s[i] \in HexDigits

\* strings.Map keeping the characters that are NOT in the permitted alphabet
Offending(s, permitted) == SelectSeq(s, LAMBDA ch : ch \notin permitted)

(***************************************************************************)
(* Errors.  kind "nil" is the nil error.                                   *)
(***************************************************************************)
Err(kind, col, row, binds) == [kind |-> kind, col |-> col, row |-> row, binds |-> binds]
NilErr == Err("nil", "", -1, <<>>)
Canceled == Err("context canceled", "", -1, <<>>)
ErrTooManyFields == "too many fields"

(***************************************************************************)
(* Column.FromString: converts the strings of one column of a batch to     *)
(* bind values.  The result is [res, ss, err]: res the returned value, ss  *)
(* the argument slice after the call (the code writes to it before it      *)
(* returns some errors), err the returned error.                           *)
(***************************************************************************)
Bind(tag, v) == [tag |-> tag, v |-> v]
NullTime == Bind("null", EmptyStr)

FirstIdx(ss, Bad(_)) ==
  IF \E i \in 1..Len(ss) : Bad(ss[i])
  THEN CHOOSE i \in 1..Len(ss) : Bad(ss[i]) /\ \A j \in 1..(i-1) : ~Bad(ss[j])
  ELSE 0

IsDateColumn(c) == c.DataType = tDATE \/ c.DataType \in {"TIMESTAMP", "TIMESTAMP(6)"} \/ c.Type = Date

DateBad(s) ==
  /\ s # EmptyStr
  /\ ~(Len(s) < 8 /\ AtoiOK(s))
  /\ ~TimeParseOK(Prefix(dateFormat, Min(Len(s), Len(dateFormat))), s)

DateBind(s) ==
  IF s = EmptyStr THEN NullTime
  ELSE IF Len(s) < 8 /\ AtoiOK(s) THEN Bind("xlsEpoch+days", s)
  ELSE Bind("time", s)

FromStringDate(c, ss) ==
  LET bad == FirstIdx(ss, DateBad)
      n   == IF bad = 0 THEN Len(ss) ELSE bad - 1
  IN  [res |-> [i \in 1..Len(ss) |-> IF i <= n THEN DateBind(ss[i]) ELSE NullTime],
       ss  |-> ss,
       err |-> IF bad = 0 THEN NilErr ELSE Err("parse date", "", bad - 1, <<Bind("string", ss[bad])>>)]

FromStringVarchar(c, ss) ==
  LET TooLong(s) == Len(s) > c.Length * 4
      bad == FirstIdx(ss, TooLong)
      out == IF bad = 0 THEN ss ELSE [ss EXCEPT ![bad] = Prefix(ss[bad], c.Length)]
  IN  [res |-> [i \in 1..Len(ss) |-> Bind("string", out[i])],
       ss  |-> out,
       err |-> IF bad = 0 THEN NilErr ELSE Err("is longer then allowed", "", bad - 1, <<Bind("string", ss[bad])>>)]

FromStringNumber(c, ss, permitted, what) ==
  LET NotNum(s) == Offending(s, permitted) # EmptyStr
      bad == FirstIdx(ss, NotNum)
      out == IF bad = 0 THEN ss ELSE [ss EXCEPT ![bad] = EmptyStr]
  IN  [res |-> [i \in 1..Len(ss) |-> Bind("string", out[i])],
       ss  |-> out,
       err |-> IF bad = 0 THEN NilErr ELSE Err(what, "", bad - 1, <<Bind("string", ss[bad])>>)]

LobBind(c, s) ==
  IF c.DataType # tCLOB /\ HexDecodeOK(s) THEN Bind("blob hex", s)
  ELSE IF c.DataType = tCLOB THEN Bind("clob", s)
  ELSE Bind("blob raw", s)

FromString(c, ss) ==
  IF IsDateColumn(c) THEN FromStringDate(c, ss)
  ELSE IF c.DataType = tVARCHAR2 THEN FromStringVarchar(c, ss)
  ELSE IF c.Type = IntType THEN FromStringNumber(c, ss, Digits \cup {"-"}, "is not integer")
  ELSE IF c.Type = Float THEN FromStringNumber(c, ss, Digits \cup {"-", "."}, "is not float")
  ELSE IF c.DataType = tCLOB \/ c.DataType = tBLOB
       THEN [res |-> [i \in 1..Len(ss) |-> LobBind(c, ss[i])], ss |-> ss, err |-> NilErr]
  ELSE [res |-> [i \in 1..Len(ss) |-> Bind("string", ss[i])], ss |-> ss, err |-> NilErr]

(***************************************************************************)
(* The worker's preparation of a batch: reconciliation of the field count  *)
(* of every row with the column count, and conversion of every column.     *)
(***************************************************************************)
\* index (1-based) of the first row of the chunk the worker rejects with
\* ErrTooManyFields, 0 when there is none
ShapeErr(chunk, nCols) ==
  LET Rejected(row) == Len(row) > nCols /\ row[Len(row)] # EmptyStr
  IN  FirstIdx(chunk, Rejected)

\* cols[j][k]: the k-th row's j-th field; rows are cut to nCols fields and
\* missing fields stay ""
ColsOf(chunk, nCols) ==
  [j \in 1..nCols |-> [k \in 1..Len(chunk) |->
      IF j <= Len(chunk[k]) THEN chunk[k][j] ELSE EmptyStr]]

\* the error left in err by the row-by-row repetition of FromString over
\* col, the slice as the failed call over the whole column left it
RECURSIVE ReplayFromString(_, _, _)
ReplayFromString(c, col, k) ==
  IF k > Len(col) THEN NilErr
  ELSE LET r == FromString(c, <<col[k]>>)
       IN  IF r.err.kind # "nil" THEN r.err
           ELSE ReplayFromString(c, col, k + 1)

\* conversion of the columns in order: failedCol is the first column whose
\* FromString fails (0: none), err what the worker returns in that case
ConvertBatch(cs, cols) ==
  LET Fails(i) == FromString(cs[i], cols[i]).err.kind # "nil"
      failedCol == IF \E i \in 1..Len(cs) : Fails(i)
                   THEN CHOOSE i \in 1..Len(cs) : Fails(i) /\ \A h \in 1..(i-1) : ~Fails(h)
                   ELSE 0
  IN  IF failedCol = 0
      THEN [failedCol |-> 0, err |-> NilErr,
            rowsI |-> [i \in 1..Len(cs) |-> FromString(cs[i], cols[i]).res]]
      ELSE LET rerr == ReplayFromString(cs[failedCol], FromString(cs[failedCol], cols[failedCol]).ss, 1)
           IN  [failedCol |-> failedCol,
                err |-> IF rerr.kind # "nil"
                        THEN Err("FromString", cs[failedCol].Name, rerr.row, rerr.binds)
                        ELSE NilErr,
                rowsI |-> <<>>]

\* chunkSize as load computes it from cfg.ChunkSize and the columns
\* (ChunkSizeOfDefaultFirst: the large-object override applied only to an
\* explicitly configured size)
HasLOB(cs) == \E i \in 1..Len(cs) : cs[i].DataType = tCLOB \/ cs[i].DataType = tBLOB
ChunkSizeOfDefaultFirst(cfgChunk, cs) ==
  IF cfgChunk <= 0 THEN defaultChunkSize
  ELSE IF HasLOB(cs) THEN 1
  ELSE cfgChunk

ChunkSizeOf(cfgChunk, cs) ==
  IF HasLOB(cs) THEN 1
  ELSE IF cfgChunk <= 0 THEN defaultChunkSize
  ELSE cfgChunk

AllEmpty(row) == \A i \in 1..Len(row) : row[i] = EmptyStr

(***************************************************************************)
(* State of one run of config.load, from the creation of rowsCh (line 406) *)
(* to its return.                                                          *)
(***************************************************************************)
VARIABLES
  cfgConcurrency,  \* cfg.Concurrency
  cfgChunkSize,    \* cfg.ChunkSize
  columns,         \* the target columns, as read from the catalog
  ctxDone,         \* grpCtx is cancelled
  interrupted,     \* the caller's context was cancelled (interrupt signal)
  grpErr,          \* the error errgroup recorded (the first non-nil one)
  rowsCh,          \* content of the buffered channel rowsCh
  closed,          \* rowsCh is closed
  inserted,        \* the atomic counter inserted
  wpc,             \* position of every worker goroutine
  wBatch,          \* rs, the batch a worker is working on
  wRowsI,          \* rowsI, the converted columns of that batch
  wErr,            \* the worker's variable err during the row-by-row replay
  wJ,              \* j, the row index of the replay loop
  wResult,         \* what the worker goroutine returned
  wLog,            \* the single-row Execs of the replay, in order: <<j, ok>>
  wConvFailed,     \* FromString returned an error to this worker
  wExecFailed,     \* a batched Exec of this worker failed
  wStats,          \* batches the worker received, and batches it executed without error
  tx,              \* the worker's transaction: none, open, committed, rolledback
  commits,         \* number of tx.Commit calls of the worker
  ppc,             \* position of the producer (the goroutine that runs load)
  pRow,            \* the record handed to the callback
  lineNo,          \* n of ReadCSV: records read so far
  headerSeen,
  chunk,           \* the producer's current chunk
  chunkLines,      \* Row.Line of the rows in chunk
  n,               \* rows handed to the channel
  loadResult,      \* the value load returned
  srcData,         \* Row.Line of the records after the first that have a non-empty field
  ledger           \* per Row.Line of a row put into a chunk: times sent, received, inserted

(***************************************************************************)
(* State of the first pass of config.load (lines 208-386): the goroutine   *)
(* that runs ReadRows, the goroutine that forwards rows to ctRows, and     *)
(* CreateTable, which names and types the columns of a missing table.      *)
(***************************************************************************)
VARIABLES
  ctSrc,           \* the records ReadRows surfaces in the first pass
  forceString,     \* cfg.ForceString
  tableCount,      \* n of CreateTable: what COUNT(0) FROM all_tables returns
  copyTable,       \* cfg.Copy is set
  rdPc,            \* position of the goroutine that runs ReadRows
  rdPos,           \* records ReadRows has read
  firstRow,        \* firstRow
  firstRowErr,     \* content of the channel firstRowErr (capacity 2)
  rowsClosed,      \* the unbuffered channel rows is closed
  fwPc,            \* position of the goroutine that forwards rows to ctRows
  fwRow,           \* the row it holds
  ctRows,          \* content of the channel ctRows (capacity 1)
  ctRowsClosed,    \* ctRows is closed
  mPc,             \* position of load / CreateTable
  defCancelled,    \* defCtx is cancelled
  ctCols,          \* cols of CreateTable
  ctFolded,        \* the rows the type inference loop ranged over, in order
  created          \* the columns of the CREATE TABLE statement it executed

ctVars == <<ctSrc, forceString, tableCount, copyTable, rdPc, rdPos, firstRow, firstRowErr,
            rowsClosed, fwPc, fwRow, ctRows, ctRowsClosed, mPc, defCancelled, ctCols,
            ctFolded, created>>

loadVars == <<cfgConcurrency, cfgChunkSize, columns, ctxDone, interrupted, grpErr, rowsCh, closed,
          inserted, wpc, wBatch, wRowsI, wErr, wJ, wResult, wLog, wConvFailed,
          wExecFailed, wStats, tx, commits, ppc, pRow, lineNo, headerSeen, chunk,
          chunkLines, n, loadResult, srcData, ledger>>

\* dbcsv.Row; nilColumns: Columns is the nil slice
Row(colNames, values, line) ==
  [Columns |-> colNames, Values |-> values, Line |-> line, nilColumns |-> FALSE]
\* the zero Row
NoRow == [Columns |-> <<>>, Values |-> <<>>, Line |-> 0, nilColumns |-> TRUE]

\* the first pass has not started
CtIdle ==
  /\ ctSrc = <<>>
  /\ forceString = FALSE
  /\ tableCount = 1
  /\ copyTable = FALSE
  /\ rdPc = "idle"
  /\ rdPos = 0
  /\ firstRow = NoRow
  /\ firstRowErr = <<>>
  /\ rowsClosed = FALSE
  /\ fwPc = "idle"
  /\ fwRow = NoRow
  /\ ctRows = <<>>
  /\ ctRowsClosed = FALSE
  /\ mPc = "idle"
  /\ defCancelled = FALSE
  /\ ctCols = <<>>
  /\ ctFolded = <<>>
  /\ created = <<>>

(***************************************************************************)
(* State of a dbcsv.Config and of the file system around it (read.go).     *)
(***************************************************************************)
VARIABLES
  srcRegular,      \* the source is a regular file (otherwise standard input)
  srcStream,       \* the bytes of the source
  defaultEncoding, \* DefaultEncoding, as init() left it
  oPc,             \* "init", "open", "failed", "closed", "panicked"
  detResult,       \* what DetectReaderType returned to Open
  cfgTyp,          \* cfg.typ
  cfgFileName,     \* cfg.fileName
  cfgFile,         \* the bytes behind cfg.file
  cfgZr,           \* cfg.zr is set
  fsNames,         \* the file names that exist
  reads,           \* the outcome of every ReadRows call, in order
  sheets           \* the outcome of every ReadSheets call, in order

openVars == <<srcRegular, srcStream, defaultEncoding, oPc, detResult, cfgTyp, cfgFileName,
              cfgFile, cfgZr, fsNames, reads, sheets>>

\* a byte stream: head holds its first four bytes (fewer when it is
\* shorter); layer says what it is ("none": not compressed), hdrOK whether
\* the decompressor accepts it, inner holds the decompressed stream, recs
\* the records of a stream that is not compressed
Stream(head, layer, hdrOK, inner, recs) ==
  [head |-> head, layer |-> layer, hdrOK |-> hdrOK, inner |-> inner, recs |-> recs]
NoStream == Stream(<<>>, "none", FALSE, <<>>, <<>>)

FUnknown == ""
NoType == [Type |-> FUnknown, Compression |-> ""]

OpenIdle ==
  /\ srcRegular = TRUE
  /\ srcStream = NoStream
  /\ defaultEncoding = "nop"
  /\ oPc = "idle"
  /\ detResult = [Type |-> FUnknown, Compression |-> "", err |-> FALSE]
  /\ cfgTyp = NoType
  /\ cfgFileName = ""
  /\ cfgFile = NoStream
  /\ cfgZr = FALSE
  /\ fsNames = {}
  /\ reads = <<>>
  /\ sheets = <<>>

(***************************************************************************)
(* State of one call of ReadCSV, ReadXLSFile or ReadXLSXFile (read.go).    *)
(***************************************************************************)
VARIABLES
  rFormat,         \* which reader runs: "csv", "xls" or "xlsx"
  rSrc,            \* the source as given: the text of r, or the rows of the sheet
  rText,           \* csv: the text not yet read
  rDelim,          \* the argument delim
  rColumns,        \* the argument columns (0-based indices); <<>> is nil
  rSkip,           \* the argument skip
  rPc,             \* "start", "loop", "done", "panicked"
  rComma,          \* cr.Comma
  rN,              \* csv: n; xls: n; xlsx: i (records read)
  rLine,           \* xlsx: n (rows surfaced)
  rColNames,       \* colNames
  rHasColNames,    \* colNames is not nil
  rCalls,          \* the callback invocations, in order
  rErr,            \* the returned error, or the panic
  rBook,           \* xls, xlsx: the sheets of the workbook, in order
  rSheet,          \* the argument sheetIndex (cfg.Sheet)
  rSheetName,      \* the name of the sheet that is read; "": none
  rCtxDone,        \* ctx is cancelled
  rFnErr           \* what the last invocation of fn returned

readVars == <<rFormat, rSrc, rText, rDelim, rColumns, rSkip, rPc, rComma, rN, rLine,
              rColNames, rHasColNames, rCalls, rErr, rBook, rSheet, rSheetName,
              rCtxDone, rFnErr>>

ReadIdle ==
  /\ rFormat = "csv"
  /\ rSrc = <<>>
  /\ rText = <<>>
  /\ rDelim = <<>>
  /\ rColumns = <<>>
  /\ rSkip = 0
  /\ rPc = "idle"
  /\ rComma = ""
  /\ rN = 0
  /\ rLine = 0
  /\ rColNames = <<>>
  /\ rHasColNames = FALSE
  /\ rCalls = <<>>
  /\ rErr = "nil"
  /\ rBook = <<>>
  /\ rSheet = 0
  /\ rSheetName = ""
  /\ rCtxDone = FALSE
  /\ rFnErr = "nil"

(***************************************************************************)
(* State of one call of a function of strings: csvQuote, csvQuoteString    *)
(* (write.go), mkColName (load).                                           *)
(***************************************************************************)
VARIABLES
  pFn,             \* the function called; "": none
  pSep,            \* the second argument: sep, forceString of typeOf
  pS,              \* the argument s (v of mkColName)
  pPc,             \* "idle", "call", "returned", "panicked"
  pOut             \* what was written to w, or returned

pureVars == <<pFn, pSep, pS, pPc, pOut>>

PureIdle ==
  /\ pFn = ""
  /\ pSep = <<>>
  /\ pS = <<>>
  /\ pPc = "idle"
  /\ pOut = <<>>

(***************************************************************************)
(* State of one call of dbExec (csvdbforeach).                             *)
(***************************************************************************)
VARIABLES
  eReturns,        \* st.Returns: the call is a function
  eOneTx,          \* the argument oneTx
  eRows,           \* the rows the channel delivers, by what the call does with them
  ePc,             \* "idle", "start", "loop", "done", "panicked"
  ePos,            \* the rows received
  eTx,             \* tx: "nil" or "open"
  eTxRows,         \* the rows executed in the open transaction
  eCommitted,      \* the rows whose effect is committed
  eRolledBack,     \* the rows whose effect was rolled back
  eBegins,         \* the transactions begun
  eN,              \* n
  eErr             \* the returned error

execVars == <<eReturns, eOneTx, eRows, ePc, ePos, eTx, eTxRows, eCommitted, eRolledBack,
              eBegins, eN, eErr>>

ExecIdle ==
  /\ eReturns = FALSE
  /\ eOneTx = FALSE
  /\ eRows = <<>>
  /\ ePc = "idle"
  /\ ePos = 0
  /\ eTx = "nil"
  /\ eTxRows = {}
  /\ eCommitted = {}
  /\ eRolledBack = {}
  /\ eBegins = 0
  /\ eN = 0
  /\ eErr = "nil"

(***************************************************************************)
(* State of tablecopy's Main while it prepares the destination tables.     *)
(***************************************************************************)
VARIABLES
  tcTasks,         \* tables: the copy tasks
  tcSrcP,          \* srcP.String()
  tcDstP,          \* dstP.String()
  tcPc,            \* "idle", "prepare", "copy", "done"
  tcPos,           \* the tasks the first loop has gone through
  tcStmts,         \* the statements executed on dstDB, in order
  tcErr            \* the returned error

copyVars == <<tcTasks, tcSrcP, tcDstP, tcPc, tcPos, tcStmts, tcErr>>

CopyIdle ==
  /\ tcTasks = <<>>
  /\ tcSrcP = ""
  /\ tcDstP = ""
  /\ tcPc = "idle"
  /\ tcPos = 0
  /\ tcStmts = <<>>
  /\ tcErr = "nil"

(***************************************************************************)
(* The chunk buffers of the second pass of load: chunkPool, the producer's *)
(* chunk, the batches on rowsCh and the chunks of the workers, by buffer.  *)
(***************************************************************************)
VARIABLES
  bpRows,          \* the data rows ReadRows has still to deliver
  bpChunkSize,     \* chunkSize
  bpPc,            \* the producer: "idle", "read", "send", "get", "final", "close", "done"
  bpChunk,         \* the buffer of the producer's chunk
  bpLen,           \* len(chunk) of the producer
  bpCh,            \* rowsCh: the batches sent, by buffer and length
  bpClosed,        \* rowsCh is closed
  bpPool,          \* the buffers chunkPool holds
  bpAllocs,        \* the buffers chunkPool.New has made
  bpCtxDone,       \* grpCtx is cancelled
  bwPc,            \* per worker: "recv", "read", "exec", "put", "after", "done"
  bwBuf,           \* per worker: the buffer of its chunk; 0: none
  bwErr            \* per worker: err of stmt.Exec

poolVars == <<bpRows, bpChunkSize, bpPc, bpChunk, bpLen, bpCh, bpClosed, bpPool, bpAllocs,
              bpCtxDone, bwPc, bwBuf, bwErr>>

PoolIdle ==
  /\ bpRows = 0
  /\ bpChunkSize = 1
  /\ bpPc = "idle"
  /\ bpChunk = 0
  /\ bpLen = 0
  /\ bpCh = <<>>
  /\ bpClosed = FALSE
  /\ bpPool = {}
  /\ bpAllocs = 0
  /\ bpCtxDone = FALSE
  /\ bwPc = <<>>
  /\ bwBuf = <<>>
  /\ bwErr = <<>>

(***************************************************************************)
(* State of one column of a dump (write.go): its converter and one value   *)
(* scanned into it.                                                        *)
(***************************************************************************)
VARIABLES
  dKind,           \* col.Type.Kind(): "String", "Int64", "Float64", "other"
  dDbType,         \* col.DatabaseType
  dPrecision,      \* col.Precision
  dScale,          \* col.Scale
  dValue,          \* the value the driver hands to Scan, in decimal
  dPc,             \* "idle", "convert", "scan", "string", "done", "failed"
  dConv,           \* the Stringer Converter returned; "": none
  dValid,          \* ValInt: value.Valid
  dErr,            \* what rows.Scan returned
  dOut             \* what String returned

dumpVars == <<dKind, dDbType, dPrecision, dScale, dValue, dPc, dConv, dValid, dErr, dOut>>

DumpIdle ==
  /\ dKind = "other"
  /\ dDbType = ""
  /\ dPrecision = 0
  /\ dScale = 0
  /\ dValue = <<>>
  /\ dPc = "idle"
  /\ dConv = ""
  /\ dValid = FALSE
  /\ dErr = "nil"
  /\ dOut = <<>>

(***************************************************************************)
(* State of the callback of csvdbforeach's Main around a reader.           *)
(***************************************************************************)
VARIABLES
  fSeen,           \* the invocations of the callback that have returned
  fRows,           \* the rows sent on the channel rows, with their source records
  fPanicked        \* the callback has panicked

foreachVars == <<fSeen, fRows, fPanicked>>

ForeachIdle ==
  /\ fSeen = 0
  /\ fRows = <<>>
  /\ fPanicked = FALSE

(***************************************************************************)
(* State of one call of ReadFile (read.go) on a workbook.                  *)
(***************************************************************************)
VARIABLES
  rfPc,            \* "idle", "open", "loop", "sheet", "returned", "panicked"
  rfKeys,          \* the values the range over the sheets has still to give
  rfRead,          \* the reader calls that have ended: index, sheet name, invocations
  rfErrs           \* errs

fileVars == <<rfPc, rfKeys, rfRead, rfErrs>>

FileIdle ==
  /\ rfPc = "idle"
  /\ rfKeys = {}
  /\ rfRead = <<>>
  /\ rfErrs = <<>>

(***************************************************************************)
(* State of the iterator queueNext returns (csvdump), and of the queue.    *)
(***************************************************************************)
VARIABLES
  qInitLen,        \* len(messages) as queueNext made it
  qQueue,          \* the messages waiting in the queue, by their Object
  qEnqueued,       \* the messages enqueued so far
  qMessages,       \* messages, by their Object ("nil": no object)
  qOff,            \* off
  qPc,             \* "idle", "call", "dequeue", "deliver", "ended", "panicked"
  qReturned,       \* the payloads the iterator has returned
  qErr,            \* the error the iterator returned last, or the panic
  qCtxDone         \* ctx is cancelled

queueVars == <<qInitLen, qQueue, qEnqueued, qMessages, qOff, qPc, qReturned, qErr, qCtxDone>>

QueueIdle ==
  /\ qInitLen = 0
  /\ qQueue = <<>>
  /\ qEnqueued = 0
  /\ qMessages = <<>>
  /\ qOff = 0
  /\ qPc = "idle"
  /\ qReturned = <<>>
  /\ qErr = "nil"
  /\ qCtxDone = FALSE

(***************************************************************************)
(* State of one call of executeCommands (csvdump).                         *)
(***************************************************************************)
VARIABLES
  xcCommands,      \* the commands next has still to give
  xcPc,            \* "idle", "loop", "returned", "failed"
  xcStyles,        \* styles: the style ids by name, as the last command left it
  xcCreated,       \* the styles f.NewStyle has made: name and id, in order
  xcApplied,       \* the styles set on cells, columns and rows: command, name, id
  xcWritten,       \* f.WriteTo has written the workbook to w
  xcExecuted,      \* the commands that were executed without error
  xcCtxDone        \* ctx is cancelled

remoteVars == <<xcCommands, xcPc, xcStyles, xcCreated, xcApplied, xcWritten, xcExecuted,
                xcCtxDone>>

RemoteIdle ==
  /\ xcCommands = <<>>
  /\ xcPc = "idle"
  /\ xcStyles = <<>>
  /\ xcCreated = <<>>
  /\ xcApplied = <<>>
  /\ xcWritten = FALSE
  /\ xcExecuted = 0
  /\ xcCtxDone = FALSE

(***************************************************************************)
(* State of one call of tablecopy's One, with the Log that Main gives it.  *)
(***************************************************************************)
VARIABLES
  onVerbose,       \* *flagVerbose
  onLog,           \* Log: "unset", "nil" or "func"
  onPc,            \* "idle", "main", "call", "columns", "prepare", "query", "rows",
                   \* "returned", "failed", "panicked"
  onSrcRows,       \* the rows the source query has still to give
  onBatchSize,     \* batchSize
  onBatch,         \* rBatch[0].Len()
  onN,             \* n
  onInserted,      \* the rows stmt.ExecContext has inserted
  onLogged         \* the calls of Log

oneVars == <<onVerbose, onLog, onPc, onSrcRows, onBatchSize, onBatch, onN, onInserted, onLogged>>

OneIdle ==
  /\ onVerbose = FALSE
  /\ onLog = "unset"
  /\ onPc = "idle"
  /\ onSrcRows = 0
  /\ onBatchSize = 0
  /\ onBatch = 0
  /\ onN = 0
  /\ onInserted = 0
  /\ onLogged = 0

\* the state outside the second pass of load
otherVars == <<ctVars, openVars, readVars, pureVars, execVars, copyVars, poolVars, dumpVars,
    foreachVars, fileVars, queueVars, remoteVars, oneVars>>
OtherIdle ==
  CtIdle /\ OpenIdle /\ ReadIdle /\ PureIdle /\ ExecIdle /\ CopyIdle /\ PoolIdle /\ DumpIdle /\
    ForeachIdle /\ FileIdle /\ QueueIdle /\ RemoteIdle /\ OneIdle

\* the state outside one group of variables
notCtVars == <<loadVars, openVars, readVars, pureVars, execVars, copyVars, poolVars, dumpVars,
    foreachVars, fileVars, queueVars, remoteVars, oneVars>>
notOpenVars == <<loadVars, ctVars, readVars, pureVars, execVars, copyVars, poolVars, dumpVars,
    foreachVars, fileVars, queueVars, remoteVars, oneVars>>
notReadVars == <<loadVars, ctVars, openVars, pureVars, execVars, copyVars, poolVars, dumpVars,
    foreachVars, fileVars, queueVars, remoteVars, oneVars>>
notPureVars == <<loadVars, ctVars, openVars, readVars, execVars, copyVars, poolVars, dumpVars,
    foreachVars, fileVars, queueVars, remoteVars, oneVars>>
notExecVars == <<loadVars, ctVars, openVars, readVars, pureVars, copyVars, poolVars, dumpVars,
    foreachVars, fileVars, queueVars, remoteVars, oneVars>>
notCopyVars == <<loadVars, ctVars, openVars, readVars, pureVars, execVars, poolVars, dumpVars,
    foreachVars, fileVars, queueVars, remoteVars, oneVars>>
notPoolVars == <<loadVars, ctVars, openVars, readVars, pureVars, execVars, copyVars, dumpVars,
    foreachVars, fileVars, queueVars, remoteVars, oneVars>>
notDumpVars == <<loadVars, ctVars, openVars, readVars, pureVars, execVars, copyVars, poolVars,
    foreachVars, fileVars, queueVars, remoteVars, oneVars>>
notForeachVars == <<loadVars, ctVars, openVars, readVars, pureVars, execVars, copyVars,
    poolVars, dumpVars, fileVars, queueVars, remoteVars, oneVars>>
notFileVars == <<loadVars, ctVars, openVars, readVars, pureVars, execVars, copyVars, poolVars,
    dumpVars, foreachVars, queueVars, remoteVars, oneVars>>
notQueueVars == <<loadVars, ctVars, openVars, readVars, pureVars, execVars, copyVars, poolVars,
    dumpVars, foreachVars, fileVars, remoteVars, oneVars>>
notRemoteVars == <<loadVars, ctVars, openVars, readVars, pureVars, execVars, copyVars, poolVars,
    dumpVars, foreachVars, fileVars, queueVars, oneVars>>
notOneVars == <<loadVars, ctVars, openVars, readVars, pureVars, execVars, copyVars, poolVars,
    dumpVars, foreachVars, fileVars, queueVars, remoteVars>>
notReadFileVars == <<loadVars, ctVars, openVars, pureVars, execVars, copyVars, poolVars,
    dumpVars, foreachVars, queueVars, remoteVars, oneVars>>

vars == <<loadVars, otherVars>>

cfgVars == <<cfgConcurrency, cfgChunkSize, columns, interrupted>>
workerVars == <<wpc, wBatch, wRowsI, wErr, wJ, wResult, wLog, wConvFailed, wExecFailed,
                wStats, tx, commits>>
producerVars == <<ppc, pRow, lineNo, headerSeen, chunk, chunkLines, n, loadResult, srcData>>

Workers == 1..cfgConcurrency
chunkSize == ChunkSizeOf(cfgChunkSize, columns)
NoBatch == [Rows |-> <<>>, Start |-> 0, Lines |-> <<>>]

Column(name, dataType, length) ==
  [Name |-> name, DataType |-> dataType, Length |-> length, Type |-> Unknown]

InitLoad(conc, cs, cols) ==
  /\ cfgConcurrency = conc
  /\ cfgChunkSize = cs
  /\ columns = cols
  /\ ctxDone = FALSE
  /\ interrupted = FALSE
  /\ grpErr = NilErr
  /\ rowsCh = <<>>
  /\ closed = FALSE
  /\ inserted = 0
  /\ wpc = [w \in 1..conc |-> "begin"]
  /\ wBatch = [w \in 1..conc |-> NoBatch]
  /\ wRowsI = [w \in 1..conc |-> <<>>]
  /\ wErr = [w \in 1..conc |-> NilErr]
  /\ wJ = [w \in 1..conc |-> 0]
  /\ wResult = [w \in 1..conc |-> NilErr]
  /\ wLog = [w \in 1..conc |-> <<>>]
  /\ wConvFailed = [w \in 1..conc |-> FALSE]
  /\ wExecFailed = [w \in 1..conc |-> FALSE]
  /\ wStats = [w \in 1..conc |-> [received |-> 0, executed |-> 0]]
  /\ tx = [w \in 1..conc |-> "none"]
  /\ commits = [w \in 1..conc |-> 0]
  /\ ppc = "start"
  /\ pRow = <<>>
  /\ lineNo = 0
  /\ headerSeen = FALSE
  /\ chunk = <<>>
  /\ chunkLines = <<>>
  /\ n = 0
  /\ loadResult = NilErr
  /\ srcData = {}
  /\ ledger = <<>>

InitState(conc, cs, cols) == InitLoad(conc, cs, cols) /\ OtherIdle

(***************************************************************************)
(* Workers: the goroutines started by grp.Go (lines 412-522).              *)
(***************************************************************************)
\* the goroutine returns err: the deferred tx.Rollback runs, and errgroup
\* records the first non-nil error and cancels grpCtx
Return(w, err) ==
  /\ wResult' = [wResult EXCEPT ![w] = err]
  /\ wpc' = [wpc EXCEPT ![w] = "done"]
  /\ tx' = [tx EXCEPT ![w] = IF @ = "open" THEN "rolledback" ELSE @]
  /\ IF err.kind # "nil" /\ grpErr.kind = "nil"
     THEN grpErr' = err /\ ctxDone' = TRUE
     ELSE UNCHANGED <<grpErr, ctxDone>>

\* db.BeginTx and tx.PrepareContext; both fail on a cancelled grpCtx
W_Begin(w) ==
  /\ wpc[w] = "begin"
  /\ \/ /\ wResult' = [wResult EXCEPT ![w] = Err("BEGIN", "", -1, <<>>)]
        /\ wpc' = [wpc EXCEPT ![w] = "done"]
        /\ tx' = tx
        /\ IF grpErr.kind = "nil"
           THEN grpErr' = Err("BEGIN", "", -1, <<>>) /\ ctxDone' = TRUE
           ELSE UNCHANGED <<grpErr, ctxDone>>
     \/ /\ ~ctxDone
        /\ wResult' = [wResult EXCEPT ![w] = Err("PREPARE", "", -1, <<>>)]
        /\ wpc' = [wpc EXCEPT ![w] = "done"]
        /\ tx' = [tx EXCEPT ![w] = "rolledback"]
        /\ IF grpErr.kind = "nil"
           THEN grpErr' = Err("PREPARE", "", -1, <<>>) /\ ctxDone' = TRUE
           ELSE UNCHANGED <<grpErr, ctxDone>>
     \/ /\ ~ctxDone
        /\ tx' = [tx EXCEPT ![w] = "open"]
        /\ wpc' = [wpc EXCEPT ![w] = "recv"]
        /\ UNCHANGED <<wResult, grpErr, ctxDone>>
  /\ UNCHANGED <<otherVars, cfgVars, producerVars, rowsCh, closed, inserted, ledger,
                 wBatch, wRowsI, wErr, wJ, wLog, wConvFailed, wExecFailed, wStats, commits>>

BumpLedger(lines, field) ==
  [l \in DOMAIN ledger |->
     IF \E i \in 1..Len(lines) : lines[i] = l
     THEN [ledger[l] EXCEPT ![field] = @ + 1]
     ELSE ledger[l]]

\* for rs := range rowsCh: a batch is received
W_Recv(w) ==
  /\ wpc[w] = "recv"
  /\ rowsCh # <<>>
  /\ wBatch' = [wBatch EXCEPT ![w] = Head(rowsCh)]
  /\ rowsCh' = Tail(rowsCh)
  /\ wpc' = [wpc EXCEPT ![w] = "process"]
  /\ ledger' = BumpLedger(Head(rowsCh).Lines, "received")
  /\ wStats' = [wStats EXCEPT ![w].received = @ + 1]
  /\ UNCHANGED <<otherVars, cfgVars, producerVars, closed, inserted, ctxDone, grpErr,
                 wRowsI, wErr, wJ, wResult, wLog, wConvFailed, wExecFailed, tx, commits>>

\* the range loop ends: rowsCh is closed and drained
\* (RangeEndsOnEmpty: an empty channel taken for a closed one)
RangeEndsOnEmpty == rowsCh = <<>>

RangeEnds == rowsCh = <<>> /\ closed

\* the range loop has ended: tx.Commit, which fails on a transaction whose
\* context (grpCtx, given to BeginTx) is cancelled
W_Commit(w) ==
  /\ wpc[w] = "recv"
  /\ RangeEnds
  /\ commits' = [commits EXCEPT ![w] = @ + 1]
  /\ \/ /\ ~ctxDone
        /\ tx' = [tx EXCEPT ![w] = "committed"]
        /\ wpc' = [wpc EXCEPT ![w] = "done"]
        /\ UNCHANGED <<wResult, grpErr, ctxDone>>
     \/ Return(w, Err("COMMIT", "", -1, <<>>))
  /\ UNCHANGED <<otherVars, cfgVars, producerVars, rowsCh, closed, inserted, ledger,
                 wBatch, wRowsI, wErr, wJ, wLog, wConvFailed, wExecFailed, wStats>>

\* atomic.AddInt64(&inserted, int64(len(chunk)))
\* (AddInsertedPerBatch: the counter advanced by one per Exec)
AddInsertedPerBatch(ins, rows) == ins + 1

AddInserted(ins, rows) == ins + Len(rows)

\* one pass of the loop body on the received batch, up to the batched Exec
W_Process(w) ==
  /\ wpc[w] = "process"
  /\ LET rs == wBatch[w]
         nCols == Len(columns)
         shape == ShapeErr(rs.Rows, nCols)
         cv == ConvertBatch(columns, ColsOf(rs.Rows, nCols))
     IN
     IF ctxDone THEN
        /\ Return(w, NilErr)
        /\ UNCHANGED <<inserted, ledger, wRowsI, wErr, wJ, wLog, wConvFailed, wExecFailed, wStats>>
     ELSE IF Len(rs.Rows) = 0 THEN
        /\ wpc' = [wpc EXCEPT ![w] = "recv"]
        /\ wStats' = [wStats EXCEPT ![w].executed = @ + 1]
        /\ UNCHANGED <<inserted, ledger, wRowsI, wErr, wJ, wLog, wConvFailed, wExecFailed,
                       wResult, tx, grpErr, ctxDone>>
     ELSE IF shape # 0 THEN
        /\ Return(w, Err(ErrTooManyFields, "", rs.Start + shape - 1, <<>>))
        /\ UNCHANGED <<inserted, ledger, wRowsI, wErr, wJ, wLog, wConvFailed, wExecFailed, wStats>>
     ELSE IF cv.failedCol # 0 THEN
        /\ Return(w, cv.err)
        /\ wConvFailed' = [wConvFailed EXCEPT ![w] = TRUE]
        /\ UNCHANGED <<inserted, ledger, wRowsI, wErr, wJ, wLog, wExecFailed, wStats>>
     ELSE
        \/ \* stmt.Exec(rowsI...) succeeds
           /\ inserted' = AddInserted(inserted, rs.Rows)
           /\ ledger' = BumpLedger(rs.Lines, "inserted")
           /\ wStats' = [wStats EXCEPT ![w].executed = @ + 1]
           /\ wpc' = [wpc EXCEPT ![w] = "recv"]
           /\ UNCHANGED <<wRowsI, wErr, wJ, wLog, wConvFailed, wExecFailed,
                          wResult, tx, grpErr, ctxDone>>
        \/ \* stmt.Exec(rowsI...) fails
           /\ wExecFailed' = [wExecFailed EXCEPT ![w] = TRUE]
           /\ IF chunkSize = 1
              THEN /\ Return(w, Err("exec", "", -1, cv.rowsI))
                   /\ UNCHANGED <<wRowsI, wErr, wJ>>
              ELSE /\ wRowsI' = [wRowsI EXCEPT ![w] = cv.rowsI]
                   /\ wErr' = [wErr EXCEPT ![w] = Err("exec", "", -1, <<>>)]
                   /\ wJ' = [wJ EXCEPT ![w] = 0]
                   /\ wpc' = [wpc EXCEPT ![w] = "replay"]
                   /\ UNCHANGED <<wResult, tx, grpErr, ctxDone>>
           /\ UNCHANGED <<inserted, ledger, wLog, wConvFailed, wStats>>
  /\ UNCHANGED <<otherVars, cfgVars, producerVars, rowsCh, closed, wBatch, commits>>

\* rowsI2 of the replay: the bind values of row j
\* (RowBindsFirstRow: the row index not applied to the columns)
RowBindsFirstRow(rowsI, j) ==
  [i \in 1..Len(rowsI) |->
     IF Len(rowsI[i]) <= j THEN Bind("string", EmptyStr) ELSE rowsI[i][1]]

RowBinds(rowsI, j) ==
  [i \in 1..Len(rowsI) |->
     IF Len(rowsI[i]) <= j THEN Bind("string", EmptyStr) ELSE rowsI[i][j + 1]]

\* one iteration of the row-by-row replay (lines 500-513), and the return
\* after the last one (line 515)
W_Replay(w) ==
  /\ wpc[w] = "replay"
  /\ LET j == wJ[w]
         nRows == Len(wBatch[w].Rows)
     IN
     \/ \* stmt.Exec(rowsI2...) fails
        /\ wLog' = [wLog EXCEPT ![w] = Append(@, <<j, FALSE>>)]
        /\ wErr' = [wErr EXCEPT ![w] = Err("exec row", "", j, RowBinds(wRowsI[w], j))]
        /\ Return(w, Err("exec row", "", j, RowBinds(wRowsI[w], j)))
        /\ wJ' = wJ
     \/ \* stmt.Exec(rowsI2...) succeeds and assigns nil to err
        /\ wLog' = [wLog EXCEPT ![w] = Append(@, <<j, TRUE>>)]
        /\ wErr' = [wErr EXCEPT ![w] = NilErr]
        /\ wJ' = [wJ EXCEPT ![w] = j + 1]
        /\ IF j + 1 < nRows
           THEN UNCHANGED <<wpc, wResult, tx, grpErr, ctxDone>>
           ELSE Return(w, wErr'[w])
  /\ UNCHANGED <<otherVars, cfgVars, producerVars, rowsCh, closed, inserted, ledger,
                 wBatch, wRowsI, wConvFailed, wExecFailed, wStats, commits>>

(***************************************************************************)
(* Producer: load itself, reading the source with ReadRows (lines 524-589) *)
(* and ReadCSV's loop (read.go 605-671).                                   *)
(***************************************************************************)
\* line 526: a context that is already cancelled makes load panic
P_Start ==
  /\ ppc = "start"
  /\ ppc' = IF ctxDone THEN "panicked" ELSE "enter"
  /\ UNCHANGED <<otherVars, cfgVars, workerVars, rowsCh, closed, inserted, ctxDone, grpErr, ledger,
                 pRow, lineNo, headerSeen, chunk, chunkLines, n, loadResult, srcData>>

\* ReadRows and ReadCSV return ctx.Err() at once on a cancelled context;
\* load returns this error (line 573)
P_Enter ==
  /\ ppc = "enter"
  /\ IF ctxDone
     THEN ppc' = "returned" /\ loadResult' = Canceled
     ELSE ppc' = "read" /\ loadResult' = loadResult
  /\ UNCHANGED <<otherVars, cfgVars, workerVars, rowsCh, closed, inserted, ctxDone, grpErr, ledger,
                 pRow, lineNo, headerSeen, chunk, chunkLines, n, srcData>>

\* cr.Read() delivers the record row (the source holds at most maxRows
\* records); the loop of ReadCSV checks the context before it calls the
\* callback
P_ReadRow(row, maxRows) ==
  /\ ppc = "read"
  /\ lineNo < maxRows
  /\ lineNo' = lineNo + 1
  /\ srcData' = IF lineNo >= 1 /\ \E i \in 1..Len(row) : row[i] # <<>>
                THEN srcData \cup {lineNo} ELSE srcData
  /\ IF ctxDone
     THEN ppc' = "returned" /\ loadResult' = Canceled /\ pRow' = pRow
     ELSE ppc' = "callback" /\ loadResult' = loadResult /\ pRow' = row
  /\ UNCHANGED <<otherVars, cfgVars, workerVars, rowsCh, closed, inserted, ctxDone, grpErr, ledger,
                 headerSeen, chunk, chunkLines, n>>

\* cr.Read() returns io.EOF: ReadCSV and ReadRows return nil
P_EOF ==
  /\ ppc = "read"
  /\ ppc' = "final"
  /\ UNCHANGED <<otherVars, cfgVars, workerVars, rowsCh, closed, inserted, ctxDone, grpErr, ledger,
                 pRow, lineNo, headerSeen, chunk, chunkLines, n, loadResult, srcData>>

\* the callback of load (lines 533-558), up to the select
P_Callback ==
  /\ ppc = "callback"
  /\ IF ctxDone \/ ~headerSeen \/ AllEmpty(pRow)
     THEN /\ ppc' = "read"
          /\ headerSeen' = (headerSeen \/ ~ctxDone)
          /\ UNCHANGED <<chunk, chunkLines, ledger>>
     ELSE /\ chunk' = Append(chunk, pRow)
          /\ chunkLines' = Append(chunkLines, lineNo - 1)
          /\ ledger' = IF lineNo - 1 \in DOMAIN ledger THEN ledger
                       ELSE ledger @@ ((lineNo - 1) :> [sent |-> 0, received |-> 0, inserted |-> 0])
          /\ ppc' = IF Len(chunk') < chunkSize THEN "read" ELSE "send"
          /\ headerSeen' = headerSeen
  /\ pRow' = <<>>
  /\ UNCHANGED <<otherVars, cfgVars, workerVars, rowsCh, closed, inserted, ctxDone, grpErr,
                 lineNo, n, loadResult, srcData>>

\* the send of the current chunk
SendChunk ==
  /\ rowsCh' = Append(rowsCh, [Rows |-> chunk, Start |-> n, Lines |-> chunkLines])
  /\ n' = n + Len(chunk)
  /\ ledger' = BumpLedger(chunkLines, "sent")

\* the select of the callback (lines 560-569)
P_Send ==
  /\ ppc = "send"
  /\ \/ /\ Len(rowsCh) < cfgConcurrency
        /\ SendChunk
        /\ chunk' = <<>>
        /\ chunkLines' = <<>>
     \/ /\ ctxDone
        /\ UNCHANGED <<rowsCh, n, ledger, chunk, chunkLines>>
  /\ ppc' = "read"
  /\ UNCHANGED <<otherVars, cfgVars, workerVars, closed, inserted, ctxDone, grpErr,
                 pRow, lineNo, headerSeen, loadResult, srcData>>

\* lines 576-579: the rest of the rows is sent without a select
P_Final ==
  /\ ppc = "final"
  /\ IF Len(chunk) # 0
     THEN /\ Len(rowsCh) < cfgConcurrency
          /\ SendChunk
     ELSE UNCHANGED <<rowsCh, n, ledger>>
  /\ ppc' = "close"
  /\ UNCHANGED <<otherVars, cfgVars, workerVars, closed, inserted, ctxDone, grpErr,
                 pRow, lineNo, headerSeen, chunk, chunkLines, loadResult, srcData>>

\* line 580
P_Close ==
  /\ ppc = "close"
  /\ closed' = TRUE
  /\ ppc' = "wait"
  /\ UNCHANGED <<otherVars, cfgVars, workerVars, rowsCh, inserted, ctxDone, grpErr, ledger,
                 pRow, lineNo, headerSeen, chunk, chunkLines, n, loadResult, srcData>>

\* lines 582-588: grp.Wait returns when every worker has returned
P_Wait ==
  /\ ppc = "wait"
  /\ \A w \in Workers : wpc[w] = "done"
  /\ loadResult' = grpErr
  /\ ppc' = "returned"
  /\ ctxDone' = TRUE
  /\ UNCHANGED <<otherVars, cfgVars, workerVars, rowsCh, closed, inserted, grpErr, ledger,
                 pRow, lineNo, headerSeen, chunk, chunkLines, n, srcData>>

(***************************************************************************)
(* The caller's context (dbcsv.Wrap, globalctx.go) is cancelled by an      *)
(* interrupt signal; grpCtx is derived from it.                            *)
(***************************************************************************)
Interrupt ==
  /\ ~interrupted
  /\ ppc \notin {"returned", "panicked"}
  /\ interrupted' = TRUE
  /\ ctxDone' = TRUE
  /\ UNCHANGED <<otherVars, cfgConcurrency, cfgChunkSize, columns, workerVars, producerVars,
                 rowsCh, closed, inserted, grpErr, ledger>>

(***************************************************************************)
(* Specifications.                                                         *)
(***************************************************************************)
\* Concurrency scenarios: up to MaxWorkers workers, one NUMBER column, and
\* a source of up to MaxRows records, each either empty or holding a value
\* the column accepts; the database decides the outcome of every Exec.
SourceRows == { <<EmptyStr>>, <<<<"1">>>> }

Init ==
  \E conc \in 1..MaxWorkers, cs \in 0..MaxChunk :
    InitState(conc, cs, <<Column("ID", tNUMBER, 22)>>)

Next ==
  \/ \E w \in Workers : W_Begin(w)
  \/ \E w \in Workers : W_Recv(w)
  \/ \E w \in Workers : W_Process(w)
  \/ \E w \in Workers : W_Replay(w)
  \/ \E w \in Workers : W_Commit(w)
  \/ P_Start
  \/ P_Enter
  \/ P_EOF
  \/ P_Callback
  \/ P_Send
  \/ P_Final
  \/ P_Close
  \/ P_Wait
  \/ Interrupt
  \/ \E row \in SourceRows : P_ReadRow(row, MaxRows)

Spec == Init /\ [][Next]_vars

\* Conversion scenarios: one worker, every list of up to MaxCols columns of
\* the catalog types, every cfg.ChunkSize from -1 to 2, and a source of up
\* to MaxConvRows records with short, fitting and over-long rows and values.
ColumnKinds ==
  { Column("V", tVARCHAR2, 1), Column("N", tNUMBER, 22), Column("D", tDATE, 7),
    Column("C", tCLOB, 4000), Column("B", tBLOB, 4000) }

ColumnLists ==
  UNION { [1..k -> ColumnKinds] : k \in 1..MaxCols }

LongStr == <<"a", "a", "a", "a", "a">>
FieldValues == { EmptyStr, <<"1">>, LongStr }
ExcessFields == { <<EmptyStr>>, <<<<"1">>>>, <<LongStr, EmptyStr>> }

ConvRows(nCols) ==
  { [j \in 1..nCols |-> v] : v \in FieldValues }
    \cup { [j \in 1..nCols |-> <<"1">>] \o x : x \in ExcessFields }
    \cup { [j \in 1..(nCols - 1) |-> <<"1">>] }

InitConv ==
  \E cs \in -1..2, cols \in ColumnLists :
    InitState(1, cs, cols)

NextConv ==
  \/ \E w \in Workers : W_Begin(w)
  \/ \E w \in Workers : W_Recv(w)
  \/ \E w \in Workers : W_Process(w)
  \/ \E w \in Workers : W_Replay(w)
  \/ \E w \in Workers : W_Commit(w)
  \/ P_Start
  \/ P_Enter
  \/ P_EOF
  \/ P_Callback
  \/ P_Send
  \/ P_Final
  \/ P_Close
  \/ P_Wait
  \/ Interrupt
  \/ \E row \in ConvRows(Len(columns)) : P_ReadRow(row, MaxConvRows)

SpecConv == InitConv /\ [][NextConv]_vars

\* Replay scenarios: one worker, a NUMBER and a VARCHAR2 column, batches of
\* two or more rows, and a source of up to MaxRows records with different
\* values, one of them a field short.
ReplayRows ==
  { <<<<"1">>, <<"1">>>>, <<<<"1">>, <<"2">>>>, <<<<"2">>, <<"1">>>>, <<<<"2">>>> }

InitReplay ==
  \E cs \in 2..MaxChunk :
    InitState(1, cs, <<Column("N", tNUMBER, 22), Column("V", tVARCHAR2, 1)>>)

NextReplay ==
  \/ \E w \in Workers : W_Begin(w)
  \/ \E w \in Workers : W_Recv(w)
  \/ \E w \in Workers : W_Process(w)
  \/ \E w \in Workers : W_Replay(w)
  \/ \E w \in Workers : W_Commit(w)
  \/ P_Start
  \/ P_Enter
  \/ P_EOF
  \/ P_Callback
  \/ P_Send
  \/ P_Final
  \/ P_Close
  \/ P_Wait
  \/ Interrupt
  \/ \E row \in ReplayRows : P_ReadRow(row, MaxRows)

SpecReplay == InitReplay /\ [][NextReplay]_vars

(***************************************************************************)
(* Properties.                                                             *)
(***************************************************************************)
ColumnNames == { columns[i].Name : i \in 1..Len(columns) }

\* C1: a worker to which FromString returned an error for a column of a
\* batch returns a non-nil error that names a column, and load, when it
\* returns, returns a non-nil error.
C1_ConversionFailureIsFatal ==
  \A w \in Workers :
    (wConvFailed[w] /\ wpc[w] = "done") =>
       /\ wResult[w].kind = "FromString"
       /\ wResult[w].col \in ColumnNames
       /\ (ppc = "returned" => loadResult.kind # "nil")

\* C2: when a worker failed with an exec, conversion or too-many-fields
\* error and nothing interrupted the caller, load returns the error
\* errgroup recorded, never the cancellation the producer observed.
RealErrors == {"exec", "exec row", "FromString", ErrTooManyFields}

C2_LoadReturnsWorkerError ==
  (ppc = "returned" /\ ~interrupted /\ grpErr.kind \in RealErrors)
     => (loadResult.kind = grpErr.kind /\ loadResult = grpErr)

\* C3: load always returns; in particular the producer is never left at a
\* send that nobody can receive: holding rows to send while the channel is
\* full and every worker has returned.
C3_ProducerNeverBlockedForever ==
  ~ ( /\ ppc = "final"
      /\ Len(chunk) # 0
      /\ Len(rowsCh) = cfgConcurrency
      /\ \A w \in Workers : wpc[w] = "done" )

\* C4: after a worker returned an error no other worker is left waiting
\* for a batch that cannot come: the producer is gone and the channel is
\* empty and not closed.
C4_NoWorkerBlockedForever ==
  ~ \E v, w \in Workers :
      /\ v # w
      /\ wpc[v] = "done"
      /\ wResult[v].kind # "nil"
      /\ wpc[w] = "recv"
      /\ rowsCh = <<>>
      /\ ~closed
      /\ ppc = "returned"

\* C6: a worker one of whose batched Execs failed returns a non-nil error
\* (of the first failing row of the replay, or the batch error), and load,
\* when it returns, returns a non-nil error.
C6_ExecFailureIsAnError ==
  \A w \in Workers :
    (wExecFailed[w] /\ wpc[w] = "done") =>
       /\ wResult[w].kind \in {"exec", "exec row"}
       /\ (ppc = "returned" => loadResult.kind # "nil")

\* bind values of a row whose fields need no conversion
PlainBinds(row) ==
  [i \in 1..Len(columns) |-> Bind("string", IF i <= Len(row) THEN row[i] ELSE <<>>)]

\* C5: after a failed batched Exec with a chunk size above one the rows of
\* the batch are executed one at a time in ascending index order, nothing
\* is executed after the first failing row, and the error returned for it
\* carries the index and the bind values of that row.
C5_ReplayIsolatesFirstFailingRow ==
  \A w \in Workers :
    LET log == wLog[w]
        rows == wBatch[w].Rows
    IN  /\ (log # <<>>) => (chunkSize > 1 /\ wExecFailed[w])
        /\ Len(log) <= Len(rows)
        /\ \A i \in 1..Len(log) : log[i][1] = i - 1
        /\ \A i \in 1..(Len(log) - 1) : log[i][2] = TRUE
        /\ (wExecFailed[w] /\ chunkSize > 1 /\ wpc[w] = "done") =>
             /\ log # <<>>
             /\ \/ /\ log[Len(log)][2] = FALSE
                   /\ wResult[w].kind = "exec row"
                   /\ wResult[w].row = Len(log) - 1
                   /\ wResult[w].binds = PlainBinds(rows[Len(log)])
                \/ /\ log[Len(log)][2] = TRUE
                   /\ Len(log) = Len(rows)

C5_Witness ==
  \E w \in Workers :
    /\ wpc[w] = "done"
    /\ wResult[w].kind = "exec row"
    /\ wResult[w].row = 1
    /\ Len(wBatch[w].Rows) = 3
    /\ wBatch[w].Rows[1] # wBatch[w].Rows[2]
    /\ wLog[w] = << <<0, TRUE>>, <<1, FALSE>> >>

\* C7: a worker calls Commit at most once, only on the closed and drained
\* channel and after every batch it received was executed without error;
\* a worker that returns otherwise has its transaction rolled back.
C7_CommitOnceAfterCleanDrain ==
  \A w \in Workers :
    /\ commits[w] <= 1
    /\ (commits[w] = 1) =>
         /\ closed
         /\ rowsCh = <<>>
         /\ wStats[w].executed = wStats[w].received
         /\ ~wExecFailed[w]
         /\ ~wConvFailed[w]
    /\ (tx[w] = "committed") => (commits[w] = 1 /\ wResult[w].kind = "nil")
    /\ (wpc[w] = "done" /\ tx[w] # "committed") => tx[w] \in {"rolledback", "none"}
    /\ (wpc[w] = "done" /\ tx[w] = "none") => wResult[w].kind = "BEGIN"

C7_Witness ==
  \E v, w \in Workers :
    /\ tx[w] = "committed"
    /\ wStats[w].received >= 2
    /\ wpc[v] = "done"
    /\ tx[v] = "rolledback"
    /\ wExecFailed[v]
    /\ commits[v] = 0

\* C8: when load returns nil and every worker committed (no failure, no
\* cancellation), every record after the first that has a non-empty field
\* was sent in exactly one batch, received by exactly one worker and
\* inserted once, and inserted counts exactly these records.
AllCommitted == \A w \in Workers : tx[w] = "committed"

C8_NoRowLostOrDuplicated ==
  (ppc = "returned" /\ loadResult.kind = "nil" /\ AllCommitted) =>
     /\ DOMAIN ledger = srcData
     /\ \A l \in DOMAIN ledger :
          ledger[l].sent = 1 /\ ledger[l].received = 1 /\ ledger[l].inserted = 1
     /\ inserted = Cardinality(srcData)
     /\ n = inserted

C8_Witness ==
  /\ ppc = "returned"
  /\ loadResult.kind = "nil"
  /\ AllCommitted
  /\ cfgConcurrency = 2
  /\ cfgChunkSize = 2
  /\ inserted = 3
  /\ lineNo = 5
  /\ \A w \in Workers : wStats[w].received >= 1

\* C9: when a target column is a CLOB or a BLOB, every batch handed to a
\* worker holds exactly one row, whatever cfg.ChunkSize is.
C9_LobForcesSingleRowBatches ==
  (\E i \in 1..Len(columns) : columns[i].DataType \in {"CLOB", "BLOB"}) =>
     /\ \A b \in 1..Len(rowsCh) : Len(rowsCh[b].Rows) = 1
     /\ \A w \in Workers : wStats[w].received > 0 => Len(wBatch[w].Rows) = 1

C9_Witness ==
  /\ Len(columns) = 2
  /\ columns[1].DataType = "VARCHAR2"
  /\ columns[2].DataType = "BLOB"
  /\ cfgChunkSize <= 0
  /\ \E w \in Workers : wStats[w].received = 2 /\ wStats[w].executed = 2

\* C10: a worker that has worked on a batch with a row that has a
\* non-empty field at a position beyond the column count has failed with
\* ErrTooManyFields.
HasNonEmptyExcess(rows) ==
  \E k \in 1..Len(rows) : \E j \in (Len(columns) + 1)..Len(rows[k]) : rows[k][j] # <<>>

C10_NonEmptyExcessIsRejected ==
  \A w \in Workers :
    (wpc[w] # "process" /\ ~interrupted /\ HasNonEmptyExcess(wBatch[w].Rows)) =>
       (wpc[w] = "done" /\ wResult[w].kind = ErrTooManyFields)

(***************************************************************************)
(* Type inference of CreateTable.                                          *)
(***************************************************************************)
\* typeOf that takes a leading zero for the start of a number
typeOfLeadingZero(s, force) ==
  IF force THEN String
  ELSE IF s = EmptyStr THEN Unknown
  ELSE LET hasNonDigit == \E i \in 1..Len(s) : s[i] # "." /\ s[i] \notin Digits
           dotCount == Cardinality({i \in 1..Len(s) : s[i] = "."})
       IN  IF ~hasNonDigit /\ dotCount = 1 THEN Float
           ELSE IF ~hasNonDigit /\ dotCount = 0 THEN IntType
           ELSE IF /\ 10 <= Len(s)
                   /\ Len(s) <= Len(dateFormat)
                   /\ TimeParseOK(Prefix(dateFormat, Len(s)), s)
                THEN Date
           ELSE String

\* typeOf (lines 591-627)
typeOf(s, force) ==
  IF force THEN String
  ELSE IF s = EmptyStr THEN Unknown
  ELSE LET hasNonDigit == \E i \in 1..Len(s) : s[i] # "." /\ s[i] \notin Digits
           dotCount == Cardinality({i \in 1..Len(s) : s[i] = "."})
       IN  IF ~hasNonDigit /\ s[1] # "0" /\ dotCount = 1 THEN Float
           ELSE IF ~hasNonDigit /\ s[1] # "0" /\ dotCount = 0 THEN IntType
           ELSE IF /\ 10 <= Len(s)
                   /\ Len(s) <= Len(dateFormat)
                   /\ TimeParseOK(Prefix(dateFormat, Len(s)), s)
                THEN Date
           ELSE String

\* Type.String (lines 786-795)
TypeString(t) ==
  IF t \in {IntType, Float} THEN tNUMBER
  ELSE IF t = Date THEN tDATE
  ELSE tVARCHAR2

\* one step of the inference loop for one column (lines 702-710)
FoldType(t, v, force) ==
  IF t = String THEN String
  ELSE LET typ == typeOf(v, force)
       IN  IF t = Unknown THEN typ
           ELSE IF typ # t THEN String
           ELSE t

\* the loop body for one row (lines 698-711); the row has no more values
\* than there are columns
FoldRow(cs, values, force) ==
  [i \in 1..Len(cs) |->
     IF i <= Len(values)
     THEN [cs[i] EXCEPT !.Length = IF Len(values[i]) > @ THEN Len(values[i]) ELSE @,
                        !.Type = FoldType(@, values[i], force)]
     ELSE cs[i]]

\* the running type after the samples vs[k..], starting from t
RECURSIVE FoldFrom(_, _, _, _)
FoldFrom(t, vs, k, force) ==
  IF k > Len(vs) THEN t ELSE FoldFrom(FoldType(t, vs[k], force), vs, k + 1, force)

\* the type the inference gives a column whose samples are vs, in that order
InferredType(vs, force) == FoldFrom(IF force THEN String ELSE Unknown, vs, 1, force)

LowerCase == <<"a","b","c","d","e","f","g","h","i","j","k","l","m",
               "n","o","p","q","r","s","t","u","v","w","x","y","z">>
UpperCase == <<"A","B","C","D","E","F","G","H","I","J","K","L","M",
               "N","O","P","Q","R","S","T","U","V","W","X","Y","Z">>
Range(f) == { f[i] : i \in DOMAIN f }

\* the accented letters mkColName knows, by code point: the lower-case
\* letter, its upper-case letter, and the letter lines 970-979 give for it
Accented ==
  << <<"U+00E1", "U+00C1", "A">>, <<"U+00E9", "U+00C9", "E">>, <<"U+00ED", "U+00CD", "I">>,
     <<"U+00F6", "U+00D6", "O">>, <<"U+0151", "U+0150", "O">>, <<"U+00F3", "U+00D3", "O">>,
     <<"U+00FC", "U+00DC", "U">>, <<"U+0171", "U+0170", "U">>, <<"U+00FA", "U+00DA", "U">> >>

\* unicode.ToUpper on the ASCII letters and the accented letters
ToUpper(ch) ==
  IF ch \in Range(LowerCase)
  THEN UpperCase[CHOOSE i \in 1..26 : LowerCase[i] = ch]
  ELSE IF \E i \in 1..Len(Accented) : Accented[i][1] = ch
  THEN Accented[CHOOSE i \in 1..Len(Accented) : Accented[i][1] = ch][2]
  ELSE ch

\* the mapping of lines 968-986 for one rune
ColNameRune(ch) ==
  LET r == ToUpper(ch)
  IN  IF \E i \in 1..Len(Accented) : Accented[i][2] = r
      THEN Accented[CHOOSE i \in 1..Len(Accented) : Accented[i][2] = r][3]
      ELSE IF r \in Range(UpperCase) \cup Digits \cup {"_"} THEN r
      ELSE "_"

\* the byte of a character of a sanitized name
ByteOf(ch) ==
  IF ch \in Range(UpperCase) THEN 64 + (CHOOSE i \in 1..26 : UpperCase[i] = ch)
  ELSE IF ch = "_" THEN 95
  ELSE 48 + (CHOOSE d \in 0..9 : <<"0","1","2","3","4","5","6","7","8","9">>[d + 1] = ch)

\* a xor b on k bits
RECURSIVE XorBits(_, _, _)
XorBits(a, b, k) ==
  IF k = 0 THEN 0
  ELSE ((a + b) % 2) + 2 * XorBits(a \div 2, b \div 2, k - 1)

\* hash/fnv, 32-bit FNV-1: the sum as its two 16-bit halves.  One byte:
\* hash *= 16777619 (2^24 + 403) modulo 2^32, then hash ^= byte
FnvOffset == [hi |-> 33052, lo |-> 40389]
FnvStep(h, byte) ==
  LET c == h.lo * 403
      lo1 == c % 65536
      hi1 == (h.hi * 403 + (c \div 65536) + (h.lo % 256) * 256) % 65536
  IN  [hi |-> hi1, lo |-> (lo1 \div 256) * 256 + XorBits(lo1 % 256, byte, 8)]
RECURSIVE FnvFrom(_, _)
\* (the test of h.lo has TLC compute h before the next byte)
FnvFrom(h, v) ==
  IF v = <<>> \/ h.lo < 0 THEN h
  ELSE FnvFrom(FnvStep(h, ByteOf(Head(v))), Tail(v))
Fnv32(v) == FnvFrom(FnvOffset, v)

\* the k bits of x, the highest first
RECURSIVE Bits(_, _)
Bits(x, k) == IF k = 0 THEN <<>> ELSE Append(Bits(x \div 2, k - 1), x % 2)

\* encoding/base32, StdEncoding without padding, of the four bytes of the
\* sum, the highest first (hsh.Sum): seven characters
Base32Alphabet == UpperCase \o <<"2", "3", "4", "5", "6", "7">>
Base32Sum(h) ==
  LET bits == Bits(h.hi, 16) \o Bits(h.lo, 16) \o <<0, 0, 0>>
  IN  [g \in 1..7 |->
         Base32Alphabet[1 + 16 * bits[5 * g - 4] + 8 * bits[5 * g - 3] + 4 * bits[5 * g - 2]
                          + 2 * bits[5 * g - 1] + bits[5 * g]]]

\* the 7 characters base32 gives the FNV-32 sum of v (lines 996-999)
Digest7(v) == Base32Sum(Fnv32(v))

\* lines 967-991: the name with its runes mapped and the X put before a
\* leading underscore
Sanitized(v) ==
  LET m == [i \in 1..Len(v) |-> ColNameRune(v[i])]
  IN  IF m[1] = "_" THEN <<"X">> \o m ELSE m

\* mkColName (lines 966-1000); the caller sees a panic for the empty name
\* (v[0], line 990)
mkColName(v) ==
  IF Len(Sanitized(v)) <= 30 THEN Sanitized(v)
  ELSE Prefix(Sanitized(v), 23) \o Digest7(Sanitized(v))

(***************************************************************************)
(* First pass of load: ReadRows feeds rows, a goroutine forwards them to    *)
(* ctRows, CreateTable consumes ctRows.                                    *)
(***************************************************************************)
\* the Row the callback holds: the record read last (read.go line 663)
CurrentRow == Row(ctSrc[1], ctSrc[rdPos], rdPos - 1)

\* ReadCSV reads one record and calls the callback, which keeps the first
\* row (lines 219-222) and goes on to send it on rows
RD_Read ==
  /\ rdPc = "read"
  /\ rdPos < Len(ctSrc)
  /\ ~defCancelled
  /\ rdPos' = rdPos + 1
  /\ IF firstRow.nilColumns
     THEN /\ firstRow' = Row(ctSrc[1], ctSrc[rdPos + 1], rdPos)
          /\ firstRowErr' = Append(firstRowErr, "nil")
     ELSE UNCHANGED <<firstRow, firstRowErr>>
  /\ rdPc' = "send"
  /\ UNCHANGED <<notCtVars, ctSrc, forceString, tableCount, copyTable, rowsClosed, fwPc,
                 fwRow, ctRows, ctRowsClosed, mPc, defCancelled, ctCols, ctFolded, created>>

\* rows <- row (line 226): rows is unbuffered, the forwarding goroutine
\* receives in the same step (line 354)
RD_Send ==
  /\ rdPc = "send"
  /\ fwPc = "recv"
  /\ fwRow' = CurrentRow
  /\ fwPc' = "send"
  /\ rdPc' = "read"
  /\ UNCHANGED <<notCtVars, ctSrc, forceString, tableCount, copyTable, rdPos, firstRow,
                 firstRowErr, rowsClosed, ctRows, ctRowsClosed, mPc, defCancelled,
                 ctCols, ctFolded, created>>

\* the context is done: the callback (line 224) or ReadCSV (read.go line
\* 659) returns ctx.Err(), the goroutine reports it and closes rows
RD_Cancelled ==
  /\ \/ rdPc = "send"
     \/ rdPc = "read" /\ rdPos < Len(ctSrc)
  /\ defCancelled
  /\ firstRowErr' = Append(firstRowErr, "context canceled")
  /\ rowsClosed' = TRUE
  /\ rdPc' = "done"
  /\ UNCHANGED <<notCtVars, ctSrc, forceString, tableCount, copyTable, rdPos, firstRow,
                 fwPc, fwRow, ctRows, ctRowsClosed, mPc, defCancelled, ctCols,
                 ctFolded, created>>

\* end of the source: ReadRows returns nil (lines 231-232, 216)
RD_EOF ==
  /\ rdPc = "read"
  /\ rdPos = Len(ctSrc)
  /\ firstRowErr' = Append(firstRowErr, "nil")
  /\ rowsClosed' = TRUE
  /\ rdPc' = "done"
  /\ UNCHANGED <<notCtVars, ctSrc, forceString, tableCount, copyTable, rdPos, firstRow,
                 fwPc, fwRow, ctRows, ctRowsClosed, mPc, defCancelled, ctCols,
                 ctFolded, created>>

\* ctRows <- row (line 355)
FW_Send ==
  /\ fwPc = "send"
  /\ Len(ctRows) < 1
  /\ ctRows' = Append(ctRows, fwRow)
  /\ fwPc' = "recv"
  /\ UNCHANGED <<notCtVars, ctSrc, forceString, tableCount, copyTable, rdPc, rdPos,
                 firstRow, firstRowErr, rowsClosed, fwRow, ctRowsClosed, mPc,
                 defCancelled, ctCols, ctFolded, created>>

\* rows is closed: the range ends and ctRows is closed (line 353)
FW_Close ==
  /\ fwPc = "recv"
  /\ rowsClosed
  /\ ctRowsClosed' = TRUE
  /\ fwPc' = "done"
  /\ UNCHANGED <<notCtVars, ctSrc, forceString, tableCount, copyTable, rdPc, rdPos,
                 firstRow, firstRowErr, rowsClosed, fwRow, ctRows, mPc, defCancelled,
                 ctCols, ctFolded, created>>

\* load waits for the first row (lines 234-242)
M_First ==
  /\ mPc = "first"
  /\ firstRowErr # <<>>
  /\ firstRowErr' = Tail(firstRowErr)
  /\ IF Head(firstRowErr) = "nil"
     THEN mPc' = "create" /\ UNCHANGED defCancelled
     ELSE mPc' = "returned" /\ defCancelled' = TRUE
  /\ UNCHANGED <<notCtVars, ctSrc, forceString, tableCount, copyTable, rdPc, rdPos,
                 firstRow, rowsClosed, fwPc, fwRow, ctRows, ctRowsClosed, ctCols,
                 ctFolded, created>>

\* lines 350-358: firstRow is put on ctRows, the forwarding goroutine is
\* started and CreateTable counts the tables of that name (lines 645-671)
M_Create ==
  /\ mPc = "create"
  /\ ctRows' = <<firstRow>>
  /\ fwPc' = "recv"
  /\ mPc' = IF tableCount = 0 /\ ~copyTable THEN "ctFirst" ELSE "catalog"
  /\ UNCHANGED <<notCtVars, ctSrc, forceString, tableCount, copyTable, rdPc, rdPos,
                 firstRow, firstRowErr, rowsClosed, fwRow, ctRowsClosed, defCancelled,
                 ctCols, ctFolded, created>>

\* lines 685-696: the columns are named after row.Columns
CT_Names(row) ==
  IF \E i \in 1..Len(row.Columns) : row.Columns[i] = EmptyStr
  THEN mPc' = "panicked" /\ UNCHANGED ctCols
  ELSE /\ ctCols' = [i \in 1..Len(row.Columns) |->
                       [Name |-> mkColName(row.Columns[i]),
                        Type |-> IF forceString THEN String ELSE Unknown,
                        Length |-> 0]]
       /\ mPc' = "fold"

\* row := <-rows (line 672)
CT_First ==
  /\ mPc = "ctFirst"
  /\ ctRows # <<>>
  /\ ctRows' = Tail(ctRows)
  /\ IF Len(Head(ctRows).Columns) = 0
     THEN mPc' = "ctLoop" /\ UNCHANGED ctCols
     ELSE CT_Names(Head(ctRows))
  /\ UNCHANGED <<notCtVars, ctSrc, forceString, tableCount, copyTable, rdPc, rdPos,
                 firstRow, firstRowErr, rowsClosed, fwPc, fwRow, ctRowsClosed,
                 defCancelled, ctFolded, created>>

\* the loop that looks for a row with columns (lines 674-687)
CT_Loop ==
  /\ mPc = "ctLoop"
  /\ \/ /\ ctRows # <<>>
        /\ ctRows' = Tail(ctRows)
        /\ IF Len(Head(ctRows).Columns) = 0
           THEN UNCHANGED <<mPc, ctCols>>
           ELSE CT_Names(Head(ctRows))
     \/ /\ ctRows = <<>>
        /\ ctRowsClosed
        /\ mPc' = "panicked"
        /\ UNCHANGED <<ctRows, ctCols>>
  /\ UNCHANGED <<notCtVars, ctSrc, forceString, tableCount, copyTable, rdPc, rdPos,
                 firstRow, firstRowErr, rowsClosed, fwPc, fwRow, ctRowsClosed,
                 defCancelled, ctFolded, created>>

\* the inference loop (lines 697-712) and, at its end, the CREATE TABLE
\* statement (lines 713-739)
CT_Fold ==
  /\ mPc = "fold"
  /\ \/ /\ ctRows # <<>>
        /\ ctRows' = Tail(ctRows)
        /\ IF Len(Head(ctRows).Values) > Len(ctCols)
           THEN mPc' = "panicked" /\ UNCHANGED <<ctCols, ctFolded>>
           ELSE /\ ctCols' = FoldRow(ctCols, Head(ctRows).Values, forceString)
                /\ ctFolded' = Append(ctFolded, Head(ctRows).Values)
                /\ UNCHANGED mPc
        /\ UNCHANGED created
     \/ /\ ctRows = <<>>
        /\ ctRowsClosed
        /\ created' = [i \in 1..Len(ctCols) |->
                         [Name |-> ctCols[i].Name,
                          Type |-> ctCols[i].Type,
                          DataType |-> TypeString(ctCols[i].Type),
                          Length |-> IF ctCols[i].Type = Date THEN 0
                                     ELSE IF ctCols[i].Length = 0 THEN 1
                                     ELSE ctCols[i].Length * 2]]
        /\ ctCols' = <<>>
        /\ mPc' = "catalog"
        /\ UNCHANGED <<ctRows, ctFolded>>
  /\ UNCHANGED <<notCtVars, ctSrc, forceString, tableCount, copyTable, rdPc, rdPos,
                 firstRow, firstRowErr, rowsClosed, fwPc, fwRow, ctRowsClosed,
                 defCancelled>>

\* CreateTable reads the catalog and returns (lines 742-759); load builds
\* the INSERT and calls defCancel (lines 363-382)
M_Catalog ==
  /\ mPc = "catalog"
  /\ defCancelled' = TRUE
  /\ mPc' = "wait"
  /\ UNCHANGED <<notCtVars, ctSrc, forceString, tableCount, copyTable, rdPc, rdPos,
                 firstRow, firstRowErr, rowsClosed, fwPc, fwRow, ctRows, ctRowsClosed,
                 ctCols, ctFolded, created>>

\* grp.Wait (lines 383-385): a context.Canceled error is not returned
M_Wait ==
  /\ mPc = "wait"
  /\ rdPc = "done"
  /\ mPc' = "done"
  /\ UNCHANGED <<notCtVars, ctSrc, forceString, tableCount, copyTable, rdPc, rdPos,
                 firstRow, firstRowErr, rowsClosed, fwPc, fwRow, ctRows, ctRowsClosed,
                 defCancelled, ctCols, ctFolded, created>>

\* Sources of the first pass: a header record and up to MaxSamples data
\* records.
CtValues == { EmptyStr, <<"1">>, <<"1", ".", "5">>, <<"a">>,
              <<"2","0","2","4","-","0","1","-","0","2">> }
CtHeaders == { <<<<"i","d">>>>, <<<<"7">>>>, <<EmptyStr>>, <<<<"i","d">>, <<"s","t","r">>>> }
CtDataRows == { <<v>> : v \in CtValues } \cup { <<<<"1">>, <<"a">>>>, <<<<"2">>, EmptyStr>> }

RECURSIVE SeqsUpTo(_, _)
SeqsUpTo(S, k) ==
  IF k = 0 THEN { <<>> }
  ELSE LET shorter == SeqsUpTo(S, k - 1)
       IN  shorter \cup { Append(q, x) : q \in shorter, x \in S }

CtSources == { <<>> } \cup { <<h>> \o d : h \in CtHeaders, d \in SeqsUpTo(CtDataRows, MaxSamples) }

InitCreate ==
  /\ InitLoad(1, 1, <<>>)
  /\ OpenIdle
  /\ ReadIdle
  /\ PureIdle
  /\ ExecIdle
  /\ CopyIdle
  /\ PoolIdle
  /\ DumpIdle
  /\ ForeachIdle
  /\ FileIdle
  /\ QueueIdle
  /\ RemoteIdle
  /\ OneIdle
  /\ ctSrc \in CtSources
  /\ forceString \in BOOLEAN
  /\ tableCount \in {0, 1}
  /\ copyTable \in BOOLEAN
  /\ rdPc = "read"
  /\ rdPos = 0
  /\ firstRow = NoRow
  /\ firstRowErr = <<>>
  /\ rowsClosed = FALSE
  /\ fwPc = "idle"
  /\ fwRow = NoRow
  /\ ctRows = <<>>
  /\ ctRowsClosed = FALSE
  /\ mPc = "first"
  /\ defCancelled = FALSE
  /\ ctCols = <<>>
  /\ ctFolded = <<>>
  /\ created = <<>>

NextCreate ==
  \/ RD_Read
  \/ RD_Send
  \/ RD_Cancelled
  \/ RD_EOF
  \/ FW_Send
  \/ FW_Close
  \/ M_First
  \/ M_Create
  \/ CT_First
  \/ CT_Loop
  \/ CT_Fold
  \/ M_Catalog
  \/ M_Wait

SpecCreate == InitCreate /\ [][NextCreate]_vars

\* CreateTable has inferred the columns and created the table
Inferred == mPc \in {"catalog", "wait", "done"} /\ tableCount = 0 /\ ~copyTable

\* the values of column i in the data records of the source (all records
\* after the header that have an i-th field)
DataSamples(i) ==
  LET idx == SelectSeq([k \in 1..(Len(ctSrc) - 1) |-> k + 1], LAMBDA k : i <= Len(ctSrc[k]))
  IN  [k \in 1..Len(idx) |-> ctSrc[idx[k]][i]]

\* C11: when the table is missing and no copy table is given, the type of
\* every created column is the fold of typeOf over the values of the data
\* records alone; the header gives the name only.
C11_HeaderGivesNamesOnly ==
  Inferred =>
    \A i \in 1..Len(created) :
      created[i].Type = InferredType(DataSamples(i), forceString)

\* the samples of column i the inference loop ranged over
FoldedSamples(i) ==
  LET idx == SelectSeq([k \in 1..Len(ctFolded) |-> k], LAMBDA k : i <= Len(ctFolded[k]))
  IN  [k \in 1..Len(idx) |-> ctFolded[idx[k]][i]]

\* C12: the type CreateTable gives a column does not depend on the order
\* of its samples: every permutation of the samples the loop ranged over
\* folds to the type of the created column.
C12_FoldIsOrderIndependent ==
  Inferred =>
    \A i \in 1..Len(created) :
      LET vs == FoldedSamples(i)
      IN  \A p \in Permutations(1..Len(vs)) :
            InferredType([k \in 1..Len(vs) |-> vs[p[k]]], forceString) = created[i].Type

\* C34: in the inference loop of CreateTable a data row with more fields
\* than the header row is cut to the columns, one with fewer is taken as
\* padded, and the loop goes on without failure.
C34_FieldCountReconciled ==
  [][(mPc = "fold" /\ ctRows # <<>> /\ ctRows' = Tail(ctRows)) =>
       /\ mPc' = "fold"
       /\ ctCols' = FoldRow(ctCols,
                            Prefix(Head(ctRows).Values,
                                   Min(Len(Head(ctRows).Values), Len(ctCols))),
                            forceString)]_vars

(***************************************************************************)
(* DetectReaderType, Config.Open, Config.ReadRows, Config.ReadSheets and   *)
(* Config.Close (read.go).                                                 *)
(***************************************************************************)
Csv == "csv"
Xls == "xls"
XlsX == "xlsx"
Gzip == "gzip"
Zstd == "zstd"

\* the magic numbers of lines 89-104
MagicXls == <<208, 207, 17, 224>>
MagicXlsX == <<80, 75, 3, 4>>
MagicGzip == <<31, 139, 8>>
MagicZstd == <<40, 181, 47, 253>>

\* what a reader over the compressed stream s yields: the decompressed
\* stream, or a stream that fails at the first read
Decompressed(s) == IF s.hdrOK THEN s.inner[1] ELSE NoStream

\* DetectReaderType (lines 82-116); err: the returned error is not nil.
\* io.ReadFull fails on a stream of fewer than four bytes; gzip.NewReader
\* reads the gzip header and fails on a bad one, zstd.NewReader reads
\* nothing.
RECURSIVE DetectReaderType(_)
DetectReaderType(s) ==
  IF Len(s.head) < 4
  THEN [Type |-> FUnknown, Compression |-> "", err |-> TRUE]
  ELSE IF s.head = MagicXls
  THEN [Type |-> Xls, Compression |-> "", err |-> FALSE]
  ELSE IF s.head = MagicXlsX
  THEN [Type |-> XlsX, Compression |-> "", err |-> FALSE]
  ELSE IF Prefix(s.head, 3) = MagicGzip
  THEN IF s.layer # Gzip \/ ~s.hdrOK
       THEN [Type |-> Csv, Compression |-> "", err |-> FALSE]
       ELSE [DetectReaderType(s.inner[1]) EXCEPT !.Compression = Gzip]
  ELSE IF s.head = MagicZstd
  THEN [DetectReaderType(IF s.layer = Zstd THEN Decompressed(s) ELSE NoStream)
          EXCEPT !.Compression = Zstd]
  ELSE [Type |-> Csv, Compression |-> "", err |-> FALSE]

\* the name of the source file and the name os.CreateTemp gives
SrcName == "source"
TempName == "ReadRows-1"

\* what zstd.NewWriter writes for the content r (lines 236-252)
ZstdOf(r) == Stream(MagicZstd, Zstd, TRUE, <<r>>, <<>>)

\* Config.Open (lines 186-288)
Open ==
  /\ oPc = "init"
  /\ LET typ == DetectReaderType(srcStream)
         compressed == typ.Compression # ""
         slurp == ~srcRegular \/ compressed
         r == IF compressed THEN Decompressed(srcStream) ELSE srcStream
         compress == typ.Type = Csv
     IN  /\ detResult' = typ
         /\ IF typ.err
            THEN /\ oPc' = "failed"
                 /\ cfgFile' = srcStream
                 /\ UNCHANGED <<cfgTyp, cfgFileName, cfgZr>>
            ELSE /\ oPc' = "open"
                 /\ cfgTyp' = [Type |-> typ.Type, Compression |-> typ.Compression]
                 /\ IF slurp
                    THEN /\ cfgFile' = IF compress THEN ZstdOf(r) ELSE r
                         /\ cfgZr' = compress
                         /\ cfgFileName' = TempName
                    ELSE /\ cfgFile' = srcStream
                         /\ cfgZr' = FALSE
                         /\ cfgFileName' = SrcName
         \* the temporary file is created (line 229) and removed again
         \* before Open returns (lines 234, 266)
         /\ fsNames' = IF ~typ.err /\ slurp THEN (fsNames \cup {TempName}) \ {TempName} ELSE fsNames
  /\ UNCHANGED <<notOpenVars, srcRegular, srcStream, defaultEncoding, reads, sheets>>

\* what encoding/csv reads from the bytes of s: the records of a stream
\* that is not compressed; compressed bytes parse as something else
BinaryRecs == << <<"(binary)">> >>
ParseCSV(s) == IF s.layer = "none" THEN s.recs ELSE BinaryRecs

\* transform.NewReader(cfg.rdr, enc.NewDecoder()) (lines 329-333): with no
\* Charset the encoding is DefaultEncoding (line 137), which is
\* encoding.Replacement (line 34) unless init() found a charset in LANG
\* (lines 43-50); the decoder of encoding.Replacement turns any input into
\* the single rune U+FFFD, the decoder of encoding.Nop copies it
DecodedRecs(s) ==
  IF defaultEncoding = "replacement" THEN << <<"U+FFFD">> >> ELSE ParseCSV(s)

\* the file a workbook reader opens by name: the source file when that
\* name exists
OpenByName(name) == IF name \in fsNames THEN <<srcStream>> ELSE <<>>

Outcome(err, recs) == [err |-> err, recs |-> recs]

\* Config.ReadRows (lines 307-335), with a context that is not cancelled
\* and no column list; Rewind (lines 151-171) seeks to the start and, for
\* a zstd temporary file, starts a new decoder
ReadRows ==
  /\ oPc \in {"open", "closed"}
  /\ Len(reads) < MaxReads
  /\ IF oPc = "closed"
     THEN /\ oPc' = "panicked"
          /\ reads' = Append(reads, Outcome("panic: file is nil", <<>>))
     ELSE /\ UNCHANGED oPc
          /\ reads' = Append(reads,
               IF cfgTyp.Type \in {Xls, XlsX}
               THEN IF OpenByName(cfgFileName) = <<>>
                    THEN Outcome("open: no such file", <<>>)
                    ELSE Outcome("nil", OpenByName(cfgFileName)[1].recs)
               ELSE Outcome("nil", DecodedRecs(IF cfgZr THEN Decompressed(cfgFile) ELSE cfgFile)))
  /\ UNCHANGED <<notOpenVars, srcRegular, srcStream, defaultEncoding, detResult, cfgTyp,
                 cfgFileName, cfgFile, cfgZr, fsNames, sheets>>

\* Config.ReadSheets (lines 352-381)
ReadSheets ==
  /\ oPc = "open"
  /\ Len(sheets) < MaxReads
  /\ sheets' = Append(sheets,
       IF cfgTyp.Type \in {Xls, XlsX}
       THEN IF OpenByName(cfgFileName) = <<>>
            THEN Outcome("open: no such file", <<>>)
            ELSE Outcome("nil", <<"Sheet1">>)
       ELSE Outcome("nil", <<cfgFileName>>))
  /\ UNCHANGED <<notOpenVars, srcRegular, srcStream, defaultEncoding, oPc, detResult,
                 cfgTyp, cfgFileName, cfgFile, cfgZr, fsNames, reads>>

\* Config.Close (lines 290-305)
Close ==
  /\ oPc = "open"
  /\ oPc' = "closed"
  /\ cfgTyp' = NoType
  /\ cfgFileName' = ""
  /\ cfgFile' = NoStream
  /\ cfgZr' = FALSE
  /\ UNCHANGED <<notOpenVars, srcRegular, srcStream, defaultEncoding, detResult,
                 fsNames, reads, sheets>>

\* Sources: streams that are not compressed, and streams of one or two
\* compression layers around them.
SampleRecs == << <<"id", "str">>, <<"1", "a">> >>
PlainStreams ==
  { Stream(MagicXls, "none", TRUE, <<>>, SampleRecs),
    Stream(MagicXlsX, "none", TRUE, <<>>, SampleRecs),
    Stream(<<105, 100, 59, 115>>, "none", TRUE, <<>>, SampleRecs),
    Stream(<<31, 139, 7, 10>>, "none", TRUE, <<>>, << <<"1F8B07">> >>),
    Stream(<<31, 139, 8, 10>>, "none", TRUE, <<>>, << <<"1F8B08">> >>),
    Stream(<<49, 10>>, "none", TRUE, <<>>, << <<"1">> >>),
    Stream(<<>>, "none", TRUE, <<>>, <<>>) }

GzipHeads == { <<31, 139, 8, 0>>, <<31, 139, 8, 8>> }
Wrap(S) ==
  { Stream(h, Gzip, TRUE, <<x>>, <<>>) : h \in GzipHeads, x \in S }
    \cup { Stream(MagicZstd, Zstd, TRUE, <<x>>, <<>>) : x \in S }
BrokenStreams ==
  { Stream(<<31, 139, 8, 0>>, Gzip, FALSE, <<>>, <<>>),
    Stream(MagicZstd, Zstd, FALSE, <<>>, <<>>) }
OneLayer == Wrap(PlainStreams) \cup BrokenStreams
TwoLayers == Wrap(OneLayer)
Streams == PlainStreams \cup OneLayer \cup TwoLayers

InitOpen ==
  /\ InitLoad(1, 1, <<>>)
  /\ CtIdle
  /\ ReadIdle
  /\ PureIdle
  /\ ExecIdle
  /\ CopyIdle
  /\ PoolIdle
  /\ DumpIdle
  /\ ForeachIdle
  /\ FileIdle
  /\ QueueIdle
  /\ RemoteIdle
  /\ OneIdle
  /\ srcRegular \in BOOLEAN
  /\ srcStream \in Streams
  /\ defaultEncoding \in {"nop", "replacement"}
  /\ oPc = "init"
  /\ detResult = [Type |-> FUnknown, Compression |-> "", err |-> FALSE]
  /\ cfgTyp = NoType
  /\ cfgFileName = ""
  /\ cfgFile = NoStream
  /\ cfgZr = FALSE
  /\ fsNames = IF srcRegular THEN {SrcName} ELSE {}
  /\ reads = <<>>
  /\ sheets = <<>>

NextOpen ==
  \/ Open
  \/ ReadRows
  \/ ReadSheets
  \/ Close

SpecOpen == InitOpen /\ [][NextOpen]_vars

\* the number of compression layers of a stream, its innermost stream
RECURSIVE Depth(_)
Depth(s) == IF s.layer = "none" \/ ~s.hdrOK THEN 0 ELSE 1 + Depth(s.inner[1])
RECURSIVE Innermost(_)
Innermost(s) == IF s.layer = "none" \/ ~s.hdrOK THEN s ELSE Innermost(s.inner[1])

\* the classification a stream has by its first four bytes
RECURSIVE ByMagic(_)
ByMagic(s) ==
  IF s.head = MagicXls THEN [Type |-> Xls, Compression |-> "", err |-> FALSE]
  ELSE IF s.head = MagicXlsX THEN [Type |-> XlsX, Compression |-> "", err |-> FALSE]
  ELSE IF s.layer = Gzip /\ s.hdrOK THEN [ByMagic(s.inner[1]) EXCEPT !.Compression = Gzip]
  ELSE IF s.layer = Zstd /\ s.hdrOK THEN [ByMagic(s.inner[1]) EXCEPT !.Compression = Zstd]
  ELSE [Type |-> Csv, Compression |-> "", err |-> FALSE]

\* every layer of the stream can be decompressed
RECURSIVE Sound(_)
Sound(s) == IF s.layer = "none" THEN TRUE ELSE s.hdrOK /\ Sound(s.inner[1])

\* C13: DetectReaderType classifies a stream by its first four bytes: the
\* xls and xlsx magic numbers give xls and xlsx, a gzip or zstd magic
\* number gives the type of the decompressed stream with that compression,
\* and every other stream, of any length, is csv with no error.
C13_DetectByMagic ==
  (oPc # "init" /\ Sound(srcStream)) => detResult = ByMagic(srcStream)

\* C14: for a CSV source under several compression layers every layer is
\* removed: the type is that of the innermost stream and ReadRows yields
\* the records of the innermost stream.
C14_AllLayersRemoved ==
  (/\ oPc = "open"
   /\ Depth(srcStream) >= 2
   /\ Sound(srcStream)
   /\ Len(Innermost(srcStream).head) = 4
   /\ ByMagic(srcStream).Type = Csv
   /\ defaultEncoding = "nop")
  => /\ cfgTyp.Type = Csv
     /\ \A k \in 1..Len(reads) :
          reads[k].err = "nil" /\ reads[k].recs = Innermost(srcStream).recs

\* Open copied the source to a temporary file
Slurped == oPc = "open" /\ cfgFileName = TempName

\* C15: the temporary file of a spreadsheet source exists under the
\* recorded file name whenever ReadRows or ReadSheets may open it, until
\* Close.
C15_TempFileOutlivesOpen ==
  (Slurped /\ cfgTyp.Type \in {Xls, XlsX}) => cfgFileName \in fsNames

\* C16: after a successful Open every ReadRows call delivers the complete
\* record sequence of the source, and all calls deliver the same (stated
\* for sources of at most one compression layer, read with a decoder that
\* copies its input).
C16_EveryReadIsComplete ==
  (oPc = "open" /\ Sound(srcStream) /\ Depth(srcStream) <= 1 /\ defaultEncoding = "nop") =>
    \A k \in 1..Len(reads) :
      reads[k].err = "nil" /\ reads[k].recs = Innermost(srcStream).recs

\* the stream begins with the gzip or the zstd magic number
BeginsCompressed(s) ==
  Len(s.head) = 4 /\ (Prefix(s.head, 3) = MagicGzip \/ s.head = MagicZstd)
\* the stream cannot be decompressed (it is no compressed stream, or a
\* corrupt one), or what it holds is too short to sniff
Undecompressable(s) ==
  \/ s.layer = "none"
  \/ ~s.hdrOK
  \/ Len(s.inner[1].head) < 4

\* C32: for a stream that begins with a gzip or zstd magic number and
\* cannot be decompressed, or whose decompressed content is too short to
\* sniff, DetectReaderType returns type csv with a nil error.
C32_BrokenCompressionIsCsv ==
  (oPc # "init" /\ BeginsCompressed(srcStream) /\ Undecompressable(srcStream)) =>
    (detResult.Type = Csv /\ ~detResult.err)

(***************************************************************************)
(* encoding/csv: Reader.Read on a text, as ReadCSV configures the reader.  *)
(* The result is [rec, err, rest]: the record (the fields read before a    *)
(* parse error, when there is one), the error, and the text left.          *)
(***************************************************************************)
\* bytes.IndexRune / bytes.IndexByte, 1-based; 0: not found
IndexOf(line, ch) ==
  IF \E i \in 1..Len(line) : line[i] = ch
  THEN CHOOSE i \in 1..Len(line) : line[i] = ch /\ \A j \in 1..(i - 1) : line[j] # ch
  ELSE 0

\* line[k:]
DropFirst(line, k) == SubSeq(line, k + 1, Len(line))

lengthNL(line) == IF Len(line) > 0 /\ line[Len(line)] = "\n" THEN 1 ELSE 0

\* Reader.readLine: the next line with its newline
ReadLine(inp) ==
  LET i == IndexOf(inp, "\n")
  IN  IF i = 0 THEN [line |-> inp, rest |-> <<>>]
      ELSE [line |-> SubSeq(inp, 1, i), rest |-> DropFirst(inp, i)]

RECURSIVE ParseField(_, _, _, _, _)
RECURSIVE ParseQuoted(_, _, _, _, _, _)

\* the body of a quoted field; cur is the content read so far
ParseQuoted(line, rest, buf, cur, comma, lazy) ==
  LET i == IndexOf(line, "\"")
  IN  IF i > 0
      THEN LET cur2 == cur \o SubSeq(line, 1, i - 1)
               l2 == DropFirst(line, i)
           IN  IF l2 # <<>> /\ l2[1] = "\""
               THEN ParseQuoted(Tail(l2), rest, buf, Append(cur2, "\""), comma, lazy)
               ELSE IF l2 # <<>> /\ l2[1] = comma
               THEN ParseField(Tail(l2), rest, Append(buf, cur2), comma, lazy)
               ELSE IF lengthNL(l2) = Len(l2)
               THEN [rec |-> Append(buf, cur2), err |-> "nil", rest |-> rest]
               ELSE IF lazy
               THEN ParseQuoted(l2, rest, buf, Append(cur2, "\""), comma, lazy)
               ELSE [rec |-> buf, err |-> "extraneous or missing quote", rest |-> rest]
      ELSE IF Len(line) > 0
      THEN ParseQuoted(ReadLine(rest).line, ReadLine(rest).rest, buf, cur \o line, comma, lazy)
      ELSE IF ~lazy
      THEN [rec |-> buf, err |-> "extraneous or missing quote", rest |-> rest]
      ELSE [rec |-> Append(buf, cur), err |-> "nil", rest |-> rest]

\* one field of the record, and the fields after it
ParseField(line, rest, buf, comma, lazy) ==
  IF line = <<>> \/ line[1] # "\""
  THEN LET i == IndexOf(line, comma)
           field == IF i > 0 THEN SubSeq(line, 1, i - 1)
                    ELSE SubSeq(line, 1, Len(line) - lengthNL(line))
       IN  IF ~lazy /\ IndexOf(field, "\"") > 0
           THEN [rec |-> buf, err |-> "bare quote", rest |-> rest]
           ELSE IF i > 0
           THEN ParseField(DropFirst(line, i), rest, Append(buf, field), comma, lazy)
           ELSE [rec |-> Append(buf, field), err |-> "nil", rest |-> rest]
  ELSE ParseQuoted(Tail(line), rest, buf, <<>>, comma, lazy)

\* Reader.Read: empty lines are skipped
RECURSIVE csvRead(_, _, _)
csvRead(inp, comma, lazy) ==
  IF inp = <<>> THEN [rec |-> <<>>, err |-> "EOF", rest |-> <<>>]
  ELSE LET rl == ReadLine(inp)
       IN  IF Len(rl.line) = lengthNL(rl.line)
           THEN csvRead(rl.rest, comma, lazy)
           ELSE ParseField(rl.line, rl.rest, <<>>, comma, lazy)

(***************************************************************************)
(* ReadCSV, ReadXLSFile, ReadXLSXFile (read.go), with a context that is    *)
(* not cancelled and a callback that returns nil.                          *)
(***************************************************************************)
\* the candidates of line 616
Candidates == <<",", ";", "\t", " ">>

\* len(v) of line 620: the fields a strict reader with comma r gives for
\* the first record of the text
FieldCount(text, r) == Len(csvRead(text, r, FALSE).rec)

\* the delimiter lines 615-624 leave in delim ("": none); kept[k] is delim
\* after the first k candidates
RECURSIVE DelimAfter(_, _)
DelimAfter(text, k) ==
  IF k = 0 THEN [delim |-> "", maxCnt |-> 0]
  ELSE LET before == DelimAfter(text, k - 1)
           cnt == FieldCount(text, Candidates[k])
       IN  IF cnt > before.maxCnt
           THEN [delim |-> Candidates[k], maxCnt |-> cnt]
           ELSE before
DetectDelim(text) == DelimAfter(text, Len(Candidates)).delim

\* Config.parseColumnsString (lines 341-348) on the numbers of the list
parseColumnsString(numbers) == [i \in 1..Len(numbers) |-> numbers[i] - 1]

\* one callback invocation: the Row, and the record it was made from (its
\* ordinal idx in the source and its fields rec)
Call(colNames, values, line, idx, rec) ==
  [Columns |-> colNames, Values |-> values, Line |-> line, idx |-> idx, rec |-> rec]

\* colNames of a reader that captures it for every record
ColNamesOfLastRow(has, colNames, row) == row

\* lines 653-655 (528-530, 589-591): colNames is captured once
ColNamesOf(has, colNames, row) == IF has THEN colNames ELSE row

\* the errors of the readers: ErrUnknownSheet (line 30), ctx.Err() of a
\* cancelled context, the panics of lines 628 and 649
ErrUnknownSheet == "unknown sheet"
ContextCanceled == "context canceled"
NoSheetNo == "this XLS file does not contain sheet no"

\* what fn returns: nil, an error of its own, or the context's error
FnFailed == "fn failed"
FnReturns == { "nil", FnFailed, ContextCanceled }

\* fmt.Errorf(prefix + ": failed"): the cause is not part of the error
WrapfNoCause(prefix, err) == prefix \o ": failed"

\* fmt.Errorf(prefix + ": %w", err)
Wrapf(prefix, err) == prefix \o ": " \o err
\* the prefixes of lines 667, 533 and 420
WrapPrefixes == { "fn", "fn(sheetName, Row)", "sheetIndex (only: m)" }
\* errors.Is(err, target): err is target, or wraps it
ErrorsIs(err, target) ==
  \/ err = target
  \/ \E prefix \in WrapPrefixes : err = prefix \o ": " \o target

\* a sheet of a workbook: its sheetId, its name and its rows
WorkSheet(id, name, rows) == [ID |-> id, Name |-> name, rows |-> rows]

\* xls: WorkBook.GetSheet(num) as the position in the book, 0 for nil
GetSheet(book, num) == IF num < Len(book) THEN num + 1 ELSE 0

\* excelize: File.GetSheetName(index), the name of the sheet at the
\* zero-based index, "" when there is none
GetSheetName(book, index) ==
  IF index >= 0 /\ index < Len(book) THEN book[index + 1].Name ELSE ""

\* excelize: File.GetSheetMap(), the names by sheetId
GetSheetMap(book) ==
  [id \in { book[k].ID : k \in 1..Len(book) } |->
     book[CHOOSE k \in 1..Len(book) : book[k].ID = id].Name]

\* m[k] of a Go map of strings
MapGet(m, k) == IF k \in DOMAIN m THEN m[k] ELSE ""

\* lines 393-418: sheetName, "" when the sheet is unknown
SheetNameOf(book, sheetIndex) ==
  LET m == GetSheetMap(book)
      only == m[CHOOSE k \in DOMAIN m : TRUE]
      first == m[CHOOSE k \in DOMAIN m : \A j \in DOMAIN m : k <= j]
  IN  IF GetSheetName(book, sheetIndex) # "" THEN GetSheetName(book, sheetIndex)
      ELSE IF sheetIndex = 0
      THEN (IF Cardinality(DOMAIN m) = 1 THEN only ELSE first)
      ELSE IF MapGet(m, sheetIndex) # "" THEN MapGet(m, sheetIndex)
      ELSE IF MapGet(m, sheetIndex - 1) # "" THEN MapGet(m, sheetIndex - 1)
      ELSE IF Cardinality(DOMAIN m) = 1 THEN only
      ELSE ""

\* the rows of the sheet of that name
RowsOf(book, name) == book[CHOOSE k \in 1..Len(book) : book[k].Name = name].rows

\* Config.ReadSheets (lines 352-381) for a workbook
SheetsOf(format, book) ==
  IF format = "xls" THEN [i \in 0..(Len(book) - 1) |-> book[i + 1].Name]
  ELSE GetSheetMap(book)

\* the context is cancelled while a reader runs
CtxCancel ==
  /\ rPc \in {"start", "loop"}
  /\ ~rCtxDone
  /\ rCtxDone' = TRUE
  /\ UNCHANGED <<notReadVars, rFormat, rSrc, rText, rDelim, rColumns, rSkip, rPc, rComma,
                 rN, rLine, rColNames, rHasColNames, rCalls, rErr, rBook, rSheet,
                 rSheetName, rFnErr>>

\* lines 605-631: the delimiter
CSV_Start ==
  /\ rFormat = "csv"
  /\ rPc = "start"
  /\ IF rCtxDone
     THEN rErr' = ContextCanceled /\ rPc' = "done" /\ UNCHANGED rComma
     ELSE IF rDelim # <<>>
     THEN rComma' = rDelim[1] /\ rPc' = "loop" /\ UNCHANGED rErr
     ELSE IF rText = <<>>
     THEN rErr' = "peek: EOF" /\ rPc' = "done" /\ UNCHANGED rComma
     ELSE IF DetectDelim(rText) = ""
     THEN rErr' = "panic: index out of range [0] with length 0" /\ rPc' = "panicked"
          /\ UNCHANGED rComma
     ELSE rComma' = DetectDelim(rText) /\ rPc' = "loop" /\ UNCHANGED rErr
  /\ UNCHANGED <<notReadVars, rFormat, rSrc, rText, rDelim, rColumns, rSkip, rN, rLine,
                 rColNames, rHasColNames, rCalls, rBook, rSheet, rSheetName, rCtxDone,
                 rFnErr>>

\* one iteration of the loop of lines 634-669
CSV_Next ==
  /\ rFormat = "csv"
  /\ rPc = "loop"
  /\ LET rd == csvRead(rText, rComma, TRUE)
         inRange == \A i \in 1..Len(rColumns) : rColumns[i] >= 0 /\ rColumns[i] < Len(rd.rec)
         row == IF rColumns # <<>>
                THEN [i \in 1..Len(rColumns) |-> rd.rec[rColumns[i] + 1]]
                ELSE rd.rec
         colNames == ColNamesOf(rHasColNames, rColNames, row)
     IN  /\ rText' = rd.rest
         /\ IF rd.err = "EOF"
            THEN rPc' = "done" /\ UNCHANGED <<rN, rColNames, rHasColNames, rCalls, rErr, rFnErr>>
            ELSE IF rd.err # "nil"
            THEN /\ rPc' = "done" /\ rErr' = "csv read"
                 /\ UNCHANGED <<rN, rColNames, rHasColNames, rCalls, rFnErr>>
            ELSE /\ rN' = rN + 1
                 /\ IF rN + 1 <= rSkip
                    THEN UNCHANGED <<rPc, rColNames, rHasColNames, rCalls, rErr, rFnErr>>
                    ELSE IF rColumns # <<>> /\ ~inRange
                    THEN /\ rPc' = "panicked" /\ rErr' = "panic: index out of range [columns]"
                         /\ UNCHANGED <<rColNames, rHasColNames, rCalls, rFnErr>>
                    ELSE /\ rColNames' = colNames
                         /\ rHasColNames' = TRUE
                         /\ IF rCtxDone
                            THEN /\ rPc' = "done" /\ rErr' = ContextCanceled
                                 /\ UNCHANGED <<rCalls, rFnErr>>
                            ELSE \E ret \in FnReturns :
                                   /\ rCalls' = Append(rCalls,
                                                       Call(colNames, row, rN, rN + 1, rd.rec))
                                   /\ rFnErr' = ret
                                   /\ IF ret = "nil"
                                      THEN UNCHANGED <<rPc, rErr>>
                                      ELSE rPc' = "done" /\ rErr' = Wrapf("fn", ret)
  /\ UNCHANGED <<notReadVars, rFormat, rSrc, rDelim, rColumns, rSkip, rComma, rLine,
                 rBook, rSheet, rSheetName, rCtxDone>>

\* a row of a sheet: the cells of the columns off .. off+Len(cells)-1, or
\* no row at all
XRow(off, cells) == [off |-> off, cells |-> cells, isNil |-> FALSE]
NilXRow == [off |-> 0, cells |-> <<>>, isNil |-> TRUE]

\* lines 541-552: the sheet
XLS_Start ==
  /\ rFormat = "xls"
  /\ rPc = "start"
  /\ IF rCtxDone
     THEN rErr' = ContextCanceled /\ rPc' = "done" /\ UNCHANGED <<rSrc, rSheetName>>
     ELSE IF GetSheet(rBook, rSheet) = 0
     THEN rErr' = NoSheetNo /\ rPc' = "done" /\ UNCHANGED <<rSrc, rSheetName>>
     ELSE /\ rSheetName' = rBook[GetSheet(rBook, rSheet)].Name
          /\ rSrc' = rBook[GetSheet(rBook, rSheet)].rows
          /\ rPc' = "loop"
          /\ UNCHANGED rErr
  /\ UNCHANGED <<notReadVars, rFormat, rText, rDelim, rColumns, rSkip, rComma, rN, rLine,
                 rColNames, rHasColNames, rCalls, rBook, rSheet, rCtxDone, rFnErr>>

\* one iteration of the loop of lines 562-601
XLS_Next ==
  /\ rFormat = "xls"
  /\ rPc = "loop"
  /\ IF rN >= Len(rSrc)
     THEN rPc' = "done" /\ UNCHANGED <<rN, rColNames, rHasColNames, rCalls, rErr, rFnErr>>
     ELSE LET row == rSrc[rN + 1]
              need == { rColumns[i] : i \in 1..Len(rColumns) }
              vals == [k \in 1..Len(row.cells) |->
                         IF rColumns # <<>> /\ (row.off + k - 1) \notin need
                         THEN "" ELSE row.cells[k]]
              colNames == ColNamesOf(rHasColNames, rColNames, vals)
          IN  /\ rN' = rN + 1
              /\ IF rN < rSkip \/ row.isNil
                 THEN UNCHANGED <<rPc, rColNames, rHasColNames, rCalls, rErr, rFnErr>>
                 ELSE IF rCtxDone
                 THEN /\ rPc' = "done" /\ rErr' = ContextCanceled
                      /\ UNCHANGED <<rColNames, rHasColNames, rCalls, rFnErr>>
                 ELSE \E ret \in FnReturns :
                        /\ rColNames' = colNames
                        /\ rHasColNames' = TRUE
                        /\ rCalls' = Append(rCalls, Call(colNames, vals, rN, rN + 1, row))
                        /\ rFnErr' = ret
                        /\ IF ret = "nil"
                           THEN UNCHANGED <<rPc, rErr>>
                           ELSE rPc' = "done" /\ rErr' = ret
  /\ UNCHANGED <<notReadVars, rFormat, rSrc, rText, rDelim, rColumns, rSkip, rComma, rLine,
                 rBook, rSheet, rSheetName, rCtxDone>>

\* lines 384-422: the sheet
XLSX_Start ==
  /\ rFormat = "xlsx"
  /\ rPc = "start"
  /\ IF rCtxDone
     THEN rErr' = ContextCanceled /\ rPc' = "done" /\ UNCHANGED <<rSrc, rSheetName>>
     ELSE IF SheetNameOf(rBook, rSheet) = ""
     THEN /\ rErr' = Wrapf("sheetIndex (only: m)", ErrUnknownSheet)
          /\ rPc' = "done"
          /\ UNCHANGED <<rSrc, rSheetName>>
     ELSE /\ rSheetName' = SheetNameOf(rBook, rSheet)
          /\ rSrc' = RowsOf(rBook, SheetNameOf(rBook, rSheet))
          /\ rPc' = "loop"
          /\ UNCHANGED rErr
  /\ UNCHANGED <<notReadVars, rFormat, rText, rDelim, rColumns, rSkip, rComma, rN, rLine,
                 rColNames, rHasColNames, rCalls, rBook, rSheet, rCtxDone, rFnErr>>

\* one iteration of the loop of lines 453-536; the cells are the values
\* after the date override of lines 472-527
XLSX_Next ==
  /\ rFormat = "xlsx"
  /\ rPc = "loop"
  /\ IF rN >= Len(rSrc)
     THEN rPc' = "done"
          /\ UNCHANGED <<rN, rLine, rColNames, rHasColNames, rCalls, rErr, rFnErr>>
     ELSE LET row == rSrc[rN + 1]
              colNames == ColNamesOf(rHasColNames, rColNames, row.cells)
          IN  /\ rN' = rN + 1
              /\ IF rN + 1 <= rSkip \/ row.isNil
                 THEN UNCHANGED <<rPc, rLine, rColNames, rHasColNames, rCalls, rErr, rFnErr>>
                 ELSE IF rCtxDone
                 THEN /\ rPc' = "done"
                      /\ UNCHANGED <<rLine, rColNames, rHasColNames, rCalls, rErr, rFnErr>>
                 ELSE \E ret \in FnReturns :
                        /\ rColNames' = colNames
                        /\ rHasColNames' = TRUE
                        /\ rCalls' = Append(rCalls,
                                            Call(colNames, row.cells, rLine, rN + 1, row))
                        /\ rFnErr' = ret
                        /\ IF ret = "nil"
                           THEN rLine' = rLine + 1 /\ UNCHANGED <<rPc, rErr>>
                           ELSE /\ rPc' = "done"
                                /\ rErr' = Wrapf("fn(sheetName, Row)", ret)
                                /\ UNCHANGED rLine
  /\ UNCHANGED <<notReadVars, rFormat, rSrc, rText, rDelim, rColumns, rSkip, rComma,
                 rBook, rSheet, rSheetName, rCtxDone>>

\* Inputs of the readers.
CsvAlphabet == { ",", ";", "\"", "a", "b", "\n" }
\* the second text of TestReadDetectDelim, and a text of three records
TestTexts ==
  { <<"\"","C","O","L","1",",","\"",";","C","O","L","2","\n","a",";","b","\n">>,
    <<"a",";","b","\n","1",";","2","\n","3",";","4","\n">> }
Texts == SeqsUpTo(CsvAlphabet, MaxText) \cup TestTexts
XRows == { NilXRow, XRow(0, <<"a", "b">>), XRow(1, <<"c">>), XRow(0, <<"d">>) }
Sheets == SeqsUpTo(XRows, MaxSheetRows)
\* the numbers of cfg.ColumnsString; <<>>: no column list
ColumnsStrings == { <<>>, <<2, 1>>, <<3>>, <<0>> }

InitReadState(format, src, book, sheet, delim, numbers, skip) ==
  /\ InitLoad(1, 1, <<>>)
  /\ CtIdle
  /\ OpenIdle
  /\ PureIdle
  /\ ExecIdle
  /\ CopyIdle
  /\ PoolIdle
  /\ DumpIdle
  /\ ForeachIdle
  /\ FileIdle
  /\ QueueIdle
  /\ RemoteIdle
  /\ OneIdle
  /\ rFormat = format
  /\ rSrc = src
  /\ rText = src
  /\ rDelim = delim
  /\ rColumns = parseColumnsString(numbers)
  /\ rSkip = skip
  /\ rPc = "start"
  /\ rComma = ""
  /\ rN = 0
  /\ rLine = 0
  /\ rColNames = <<>>
  /\ rHasColNames = FALSE
  /\ rCalls = <<>>
  /\ rErr = "nil"
  /\ rBook = book
  /\ rSheet = sheet
  /\ rSheetName = ""
  /\ rCtxDone = FALSE
  /\ rFnErr = "nil"

InitRead ==
  \E numbers \in ColumnsStrings, skip \in 0..MaxSkip :
    \/ \E text \in Texts, delim \in { <<>>, <<";">> } :
         InitReadState("csv", text, <<>>, 0, delim, numbers, skip)
    \/ \E sheet \in Sheets, format \in {"xls", "xlsx"} :
         InitReadState(format, <<>>, <<WorkSheet(1, "Sheet1", sheet)>>, 0, <<>>,
                       numbers, skip)

NextRead ==
  \/ CtxCancel
  \/ CSV_Start
  \/ CSV_Next
  \/ XLS_Start
  \/ XLS_Next
  \/ XLSX_Start
  \/ XLSX_Next

SpecRead == InitRead /\ [][NextRead]_vars

\* the candidate whose strict parse of the first record yields the most
\* fields, the earliest candidate winning ties
MostFields(text) ==
  LET best == CHOOSE k \in 1..Len(Candidates) :
                /\ \A j \in 1..Len(Candidates) :
                     FieldCount(text, Candidates[j]) <= FieldCount(text, Candidates[k])
                /\ \A j \in 1..(k - 1) :
                     FieldCount(text, Candidates[j]) < FieldCount(text, Candidates[k])
  IN  Candidates[best]

\* C17: called with an empty delimiter on a text that is not empty, ReadCSV
\* chooses the candidate with the most fields in the first record (the
\* earliest on ties) and reads every record with it.
C17_DelimiterDetected ==
  (rFormat = "csv" /\ rDelim = <<>> /\ rSrc # <<>> /\ rPc # "start"
     /\ rErr # ContextCanceled) =>
    /\ rPc # "panicked" \/ rErr # "panic: index out of range [0] with length 0"
    /\ rPc # "panicked" => rComma = MostFields(rSrc)

\* C18: within one reader call the callback is invoked once per surfaced
\* record with strictly increasing Row.Line, none of the first skip records
\* is surfaced, and every Row carries the same Columns, equal to the Values
\* of the first surfaced record.
C18_RowsInOrderWithSharedColumns ==
  \A k \in 1..Len(rCalls) :
    /\ rCalls[k].Columns = rCalls[1].Values
    /\ rCalls[k].idx > rSkip
    /\ k > 1 => /\ rCalls[k].Line > rCalls[k - 1].Line
                /\ rCalls[k].idx > rCalls[k - 1].idx

\* a CSV read that skipped a record and surfaced two different ones
C18_Witness ==
  /\ rFormat = "csv"
  /\ rPc = "done"
  /\ rSkip >= 1
  /\ Len(rCalls) >= 2
  /\ rCalls[2].Values # rCalls[1].Values
  /\ rCalls[2].Columns = rCalls[1].Values

\* the number of fields of a source record, and its field number j + 1
Width(rec) == IF rFormat = "csv" THEN Len(rec) ELSE rec.off + Len(rec.cells)
SourceField(rec, j) ==
  IF rFormat = "csv" THEN rec[j + 1]
  ELSE IF j >= rec.off THEN rec.cells[j - rec.off + 1]
  ELSE ""

\* C19: with a column list c1..ck whose indices are all in range, every
\* surfaced row has exactly k values, the i-th being the source record's
\* field number c_i, for CSV, xls and xlsx alike.
C19_ColumnListProjects ==
  \A n1 \in 1..Len(rCalls) :
    LET call == rCalls[n1]
    IN  (/\ rColumns # <<>>
         /\ \A i \in 1..Len(rColumns) : rColumns[i] >= 0 /\ rColumns[i] < Width(call.rec))
        => /\ Len(call.Values) = Len(rColumns)
           /\ \A i \in 1..Len(rColumns) : call.Values[i] = SourceField(call.rec, rColumns[i])

\* C20: an index of the column list that is out of range for a CSV record
\* gives the empty string in the surfaced row and reading continues: no
\* panic, no error.
C20_OutOfRangeIsEmpty ==
  rFormat = "csv" =>
    /\ rErr # "panic: index out of range [columns]"
    /\ \A n1 \in 1..Len(rCalls) :
         \A i \in 1..Len(rColumns) :
           (rColumns[i] < 0 \/ rColumns[i] >= Len(rCalls[n1].rec))
             => rCalls[n1].Values[i] = EmptyStr

\* the step reads a record that is neither skipped nor a missing row
SurfacesRecord ==
  /\ rPc = "loop"
  /\ rN' = rN + 1
  /\ rN' > rSkip
  /\ rFormat # "csv" => ~rSrc[rN'].isNil

\* C21: once fn has returned an error the reader calls it no more and
\* returns an error that wraps fn's error; a reader whose context is
\* cancelled calls fn no more, and stops at the next record it would surface.
C21_CallbackErrorAndCancelStop ==
  [][ /\ rFnErr # "nil" => rCalls' = rCalls
      /\ rFnErr' # "nil" => /\ rPc' = "done"
                            /\ rErr' # "nil"
                            /\ ErrorsIs(rErr', rFnErr')
      /\ rCtxDone => rCalls' = rCalls
      /\ (rCtxDone /\ SurfacesRecord) => rPc' \in {"done", "panicked"} ]_vars

\* a CSV read whose second callback failed, with text left unread
C21_Witness ==
  /\ rFormat = "csv"
  /\ rPc = "done"
  /\ Len(rCalls) = 2
  /\ rFnErr = FnFailed
  /\ rErr = Wrapf("fn", FnFailed)
  /\ rText # <<>>

(***************************************************************************)
(* The sheet that is read: workbooks of several sheets.                    *)
(***************************************************************************)
SheetIDs == 1..(MaxSheets + 1)
SheetTitle(id) == "Sheet" \o ToString(id)
\* a sheet holds one row that tells its name
SheetWithID(id) == WorkSheet(id, SheetTitle(id), <<XRow(0, <<SheetTitle(id), "v">>)>>)
\* workbooks of 1..MaxSheets sheets whose sheetIds are distinct, in any order
Books ==
  UNION { { [k \in 1..cnt |-> SheetWithID(ids[k])] :
            ids \in { q \in [1..cnt -> SheetIDs] :
                        \A i, j \in 1..cnt : i # j => q[i] # q[j] } } :
          cnt \in 1..MaxSheets }

InitSheets ==
  \E book \in Books, sheet \in 0..(MaxSheets + 1), format \in {"xls", "xlsx"},
     skip \in 0..MaxSkip :
    InitReadState(format, <<>>, book, sheet, <<>>, <<>>, skip)

NextSheets ==
  \/ CtxCancel
  \/ XLS_Start
  \/ XLS_Next
  \/ XLSX_Start
  \/ XLSX_Next

SpecSheets == InitSheets /\ [][NextSheets]_vars

\* the reader has looked for its sheet
SheetLookedUp == rPc # "start" /\ ~(rSheetName = "" /\ rErr = ContextCanceled)

\* the sheet at the zero-based index i, else the one at i-1, else the only
\* sheet; "": none of these
SheetByIndex(book, i) ==
  IF i >= 0 /\ i < Len(book) THEN book[i + 1].Name
  ELSE IF i - 1 >= 0 /\ i - 1 < Len(book) THEN book[i].Name
  ELSE IF Len(book) = 1 THEN book[1].Name
  ELSE ""

\* C22: xls and xlsx readers alike read the sheet at the zero-based index
\* i, else the sheet at i-1, else the only sheet of the workbook, and fail
\* with ErrUnknownSheet before any row is surfaced when there is none.
C22_SheetResolved ==
  (rFormat \in {"xls", "xlsx"} /\ SheetLookedUp) =>
    IF SheetByIndex(rBook, rSheet) = ""
    THEN ErrorsIs(rErr, ErrUnknownSheet) /\ rCalls = <<>>
    ELSE rSheetName = SheetByIndex(rBook, rSheet)

\* C23: a read with Config.Sheet set to a key of the map of ReadSheets finds
\* its sheet, and it is the sheet the map names under that key.
C23_KeysSelectTheirSheets ==
  (/\ rFormat \in {"xls", "xlsx"}
   /\ SheetLookedUp
   /\ rSheet \in DOMAIN SheetsOf(rFormat, rBook))
  => /\ rErr # NoSheetNo
     /\ ~ErrorsIs(rErr, ErrUnknownSheet)
     /\ rSheetName = SheetsOf(rFormat, rBook)[rSheet]

(***************************************************************************)
(* CSV quoting (write.go).  Strings are sequences of characters.           *)
(***************************************************************************)
Quote == "\""

\* strings.Contains(s, substr); the empty string is contained in every string
Contains(s, substr) ==
  \E i \in 0..(Len(s) - Len(substr)) : SubSeq(s, i + 1, i + Len(substr)) = substr

\* strings.ContainsAny(s, chars)
ContainsAny(s, chars) == \E i \in 1..Len(s) : s[i] \in chars

\* strings.Replace(s, `"`, `""`, -1)
RECURSIVE DoubleQuotes(_)
DoubleQuotes(s) ==
  IF s = <<>> THEN <<>>
  ELSE (IF Head(s) = Quote THEN <<Quote, Quote>> ELSE <<Head(s)>>) \o DoubleQuotes(Tail(s))

\* csvQuote that writes s between quotes as it is
csvQuoteNoDoubling(sep, s) ==
  IF ~(Contains(s, sep) \/ ContainsAny(s, {Quote, "\n"})) THEN s
  ELSE <<Quote>> \o s \o <<Quote>>

\* csvQuote (lines 310-326): what it writes to w, a writer that does not fail
csvQuote(sep, s) ==
  IF ~(Contains(s, sep) \/ ContainsAny(s, {Quote, "\n"})) THEN s
  ELSE <<Quote>> \o DoubleQuotes(s) \o <<Quote>>

\* csvQuoteString that quotes for the empty separator too
csvQuoteStringAnySep(sep, s) == csvQuote(sep, s)

\* csvQuoteString (lines 297-308)
csvQuoteString(sep, s) == IF sep = <<>> THEN s ELSE csvQuote(sep, s)

\* DumpCSV quotes a header name (line 46)
Call_csvQuote ==
  /\ pPc = "call"
  /\ pFn = "csvQuote"
  /\ pOut' = csvQuote(pSep, pS)
  /\ pPc' = "returned"
  /\ UNCHANGED <<notPureVars, pFn, pSep, pS>>

\* ValString.String, ValNumber.String, ValBytes.String (lines 174-196)
Call_csvQuoteString ==
  /\ pPc = "call"
  /\ pFn = "csvQuoteString"
  /\ pOut' = csvQuoteString(pSep, pS)
  /\ pPc' = "returned"
  /\ UNCHANGED <<notPureVars, pFn, pSep, pS>>

QuoteAlphabet == { Quote, ",", ";", "a", "\n" }
\* the separators: none (DumpSheet, line 103), one character, two characters
Separators == { <<>>, <<",">>, <<";">>, <<",", ";">> }

InitPure(fn, sep, s) ==
  /\ InitLoad(1, 1, <<>>)
  /\ CtIdle
  /\ OpenIdle
  /\ ReadIdle
  /\ ExecIdle
  /\ CopyIdle
  /\ PoolIdle
  /\ DumpIdle
  /\ ForeachIdle
  /\ FileIdle
  /\ QueueIdle
  /\ RemoteIdle
  /\ OneIdle
  /\ pFn = fn
  /\ pSep = sep
  /\ pS = s
  /\ pPc = "call"
  /\ pOut = <<>>

InitQuote ==
  \E fn \in {"csvQuote", "csvQuoteString"}, sep \in Separators,
     s \in SeqsUpTo(QuoteAlphabet, MaxQuoted) :
    InitPure(fn, sep, s)

NextQuote ==
  \/ Call_csvQuote
  \/ Call_csvQuoteString

SpecQuote == InitQuote /\ [][NextQuote]_vars

\* s needs quotes: it holds the separator, a double quote or a newline
NeedsQuotes(sep, s) ==
  \/ Contains(s, sep)
  \/ \E i \in 1..Len(s) : s[i] = Quote \/ s[i] = "\n"

\* s between double quotes, with every double quote of s doubled
Quoted(s) ==
  <<Quote>> \o
  [i \in 1..(Len(s) + Cardinality({ j \in 1..Len(s) : s[j] = Quote })) |->
     LET k == CHOOSE k \in 1..Len(s) :
                k + Cardinality({ j \in 1..k : s[j] = Quote }) >= i
     IN  s[k]] \o
  <<Quote>>

\* C24 as stated: for every separator, csvQuote and csvQuoteString give the
\* quoted form of s exactly when s holds the separator, a double quote or a
\* newline, and s itself otherwise.  For the empty separator both readings
\* of "s contains sep" are accepted: every string does, or no string does.
C24_QuotedIffNeeded ==
  pPc = "returned" =>
    \/ pOut = IF NeedsQuotes(pSep, pS) THEN Quoted(pS) ELSE pS
    \/ /\ pSep = <<>>
       /\ pOut = IF ContainsAny(pS, {Quote, "\n"}) THEN Quoted(pS) ELSE pS

\* C24 amended: with a separator that is not empty, csvQuote and
\* csvQuoteString give the quoted form of s exactly when s holds the
\* separator, a double quote or a newline, and s itself otherwise; with the
\* empty separator csvQuoteString gives s itself.
C24_QuotedIffNeededForSeparator ==
  pPc = "returned" =>
    IF pSep # <<>>
    THEN pOut = IF NeedsQuotes(pSep, pS) THEN Quoted(pS) ELSE pS
    ELSE pFn = "csvQuoteString" => pOut = pS

\* a value with the separator and a double quote in it was quoted
C24_Witness ==
  /\ pPc = "returned"
  /\ pFn = "csvQuoteString"
  /\ pSep = <<",">>
  /\ pS = <<"a", ",", Quote>>
  /\ pOut = <<Quote, "a", ",", Quote, Quote, Quote>>

\* the enclosing quotes removed when present, and each doubled quote
\* replaced by one
RECURSIVE Undouble(_)
Undouble(t) ==
  IF Len(t) < 2 THEN t
  ELSE IF t[1] = Quote /\ t[2] = Quote THEN <<Quote>> \o Undouble(SubSeq(t, 3, Len(t)))
  ELSE <<t[1]>> \o Undouble(Tail(t))
Unquote(t) ==
  IF Len(t) >= 2 /\ t[1] = Quote /\ t[Len(t)] = Quote
  THEN Undouble(SubSeq(t, 2, Len(t) - 1))
  ELSE Undouble(t)

\* C25: for a separator that s does not contain, unquoting what csvQuote
\* wrote for s gives s back.
C25_UnquoteInvertsQuote ==
  (pPc = "returned" /\ pFn = "csvQuote" /\ ~Contains(pS, pSep)) => Unquote(pOut) = pS

\* a value of two double quotes went through csvQuote
C25_Witness ==
  /\ pPc = "returned"
  /\ pFn = "csvQuote"
  /\ pSep = <<",">>
  /\ pS = <<Quote, Quote>>
  /\ pOut = <<Quote, Quote, Quote, Quote, Quote, Quote>>

(***************************************************************************)
(* Column names (load): mkColName for the names of the header row.         *)
(***************************************************************************)
\* CreateTable names a column (line 689)
Call_mkColName ==
  /\ pPc = "call"
  /\ pFn = "mkColName"
  /\ IF pS = <<>>
     THEN pPc' = "panicked" /\ UNCHANGED pOut
     ELSE pPc' = "returned" /\ pOut' = mkColName(pS)
  /\ UNCHANGED <<notPureVars, pFn, pSep, pS>>

\* Headers: every short one over the alphabet (U+20AC is a rune that is no
\* letter), and long ones around the limit of 30 characters.
HeaderAlphabet == { "a", "Z", "7", "_", " ", "U+00E1", "U+0150", "U+20AC" }
Repeat(ch, k) == [i \in 1..k |-> ch]
LongHeaders ==
  UNION { { Repeat("a", k), <<"_">> \o Repeat("b", k - 1), <<"7", " ">> \o Repeat("U+00FA", k - 2) } :
          k \in 29..MaxLongHeader }
Headers == SeqsUpTo(HeaderAlphabet, MaxHeader) \cup LongHeaders

InitColName == \E h \in Headers : InitPure("mkColName", <<>>, h)

NextColName == Call_mkColName

SpecColName == InitColName /\ [][NextColName]_vars

\* C26: for every header mkColName returns a name of at most 30 characters
\* out of A-Z, 0-9 and '_' that does not begin with '_', and for a header of
\* more than 30 characters the first 23 characters of the sanitized name
\* followed by the 7 characters of its digest.
C26_ColNameIsIdentifier ==
  (pFn = "mkColName" /\ pPc # "call") =>
    /\ pPc = "returned"
    /\ Len(pOut) <= 30
    /\ \A i \in 1..Len(pOut) : pOut[i] \in Range(UpperCase) \cup Digits \cup {"_"}
    /\ pOut # <<>> => pOut[1] # "_"
    /\ Len(pS) > 30 => /\ Len(pOut) = 30
                       /\ SubSeq(pOut, 1, 23) = SubSeq(Sanitized(pS), 1, 23)
                       /\ SubSeq(pOut, 24, 30) = Digest7(Sanitized(pS))

(***************************************************************************)
(* typeOf (load): the type of one sample value.                            *)
(***************************************************************************)
\* CreateTable asks for the type of a value (line 704)
Call_typeOf ==
  /\ pPc = "call"
  /\ pFn = "typeOf"
  /\ pOut' = typeOf(pS, pSep)
  /\ pPc' = "returned"
  /\ UNCHANGED <<notPureVars, pFn, pSep, pS>>

\* Sample values: every short one over the alphabet, and values of the
\* shape of a date of 9 to 20 characters, sound or with one character
\* replaced.
TypedAlphabet == { "0", "7", ".", "-", "a" }
DateSample == <<"2","0","2","1","-","1","1","-","0","4","T","0","9",":","3","0",":","1","5","0">>
DateSamples ==
  UNION { { Prefix(DateSample, k) } \cup
          { [Prefix(DateSample, k) EXCEPT ![i] = ch] : i \in 1..k, ch \in {"3", "-", "T", ":"} } :
          k \in 9..Len(DateSample) }
TypedSamples == SeqsUpTo(TypedAlphabet, MaxTyped) \cup DateSamples

InitTypeOf == \E v \in TypedSamples, force \in BOOLEAN : InitPure("typeOf", force, v)

NextTypeOf == Call_typeOf

SpecTypeOf == InitTypeOf /\ [][NextTypeOf]_vars

\* the characters of v that are c
CountOf(v, c) == Len(SelectSeq(v, LAMBDA ch : ch = c))
\* v is written with digits and '.' alone and does not start with '0'
NumberLike(v) == v[1] # "0" /\ SelectSeq(v, LAMBDA ch : ch \notin Digits \cup {"."}) = <<>>
\* v is as long as a date and parses against the layout cut to its length
DateLike(v) ==
  /\ Len(v) \in 10..Len(dateFormat)
  /\ TimeParseOK(SubSeq(dateFormat, 1, Len(v)), v)

\* C31: typeOf returns String when force is set, Unknown for the empty
\* string, Float for digits and exactly one '.' without a leading '0',
\* Integer for the same without '.', otherwise Date for a value of 10 to
\* len(dateFormat) characters that parses against the layout cut to its
\* length, and String in every other case.
C31_TypeOfClassifies ==
  (pFn = "typeOf" /\ pPc = "returned") =>
    CASE pSep -> pOut = String
      [] ~pSep /\ pS = <<>> -> pOut = Unknown
      [] ~pSep /\ pS # <<>> /\ NumberLike(pS) /\ CountOf(pS, ".") = 1 -> pOut = Float
      [] ~pSep /\ pS # <<>> /\ NumberLike(pS) /\ CountOf(pS, ".") = 0 -> pOut = IntType
      [] ~pSep /\ pS # <<>> /\ ~(NumberLike(pS) /\ CountOf(pS, ".") <= 1) /\ DateLike(pS) ->
           pOut = Date
      [] OTHER -> pOut = String

\* a date without its time was classified, and not by force
C31_Witness ==
  /\ pFn = "typeOf"
  /\ pPc = "returned"
  /\ pSep = FALSE
  /\ Len(pS) = 10
  /\ pOut = Date

(***************************************************************************)
(* dbExec (csvdbforeach): one call per row, in transactions.               *)
(***************************************************************************)
\* What the call does with a row: "ok" converts, executes and (a function)
\* returns retOk; "notOk" executes and returns another value; "convErr" has
\* a value its converter refuses; "execErr" fails in stmt.Exec; "wide" has
\* more values than st.Converters.
RowKinds == { "ok", "notOk", "convErr", "execErr", "wide" }

\* the test of line 215 with every row committed on its own
CommitsEachRowAlways(oneTx) == TRUE

\* the test of line 215: tx != nil is tested by the caller
CommitsEachRow(oneTx) == ~oneTx

\* the function returns by way of the deferred tx.Rollback (lines 135-139)
\* with the rows of txRows executed in the open transaction, if any
ExecReturn(pc, err, txRows) ==
  /\ ePc' = pc
  /\ eErr' = err
  /\ eTx' = "nil"
  /\ eTxRows' = {}
  /\ eRolledBack' = eRolledBack \cup txRows

\* lines 122-126 and 140-143
DbExec_Start ==
  /\ ePc = "start"
  /\ \E getQueryOK \in BOOLEAN :
       IF getQueryOK
       THEN ePc' = "loop" /\ UNCHANGED eErr
       ELSE ePc' = "done" /\ eErr' = "getQuery"
  /\ UNCHANGED <<notExecVars, eReturns, eOneTx, eRows, ePos, eTx, eTxRows, eCommitted,
                 eRolledBack, eBegins, eN>>

\* one iteration of the loop of lines 146-222
DbExec_Row ==
  /\ ePc = "loop"
  /\ ePos < Len(eRows)
  /\ ePos' = ePos + 1
  /\ LET i == ePos + 1
         kind == eRows[i]
         txRows == IF eTx = "nil" THEN {} ELSE eTxRows
     IN  \E db \in {"ok", "Begin fails", "Prepare fails", "Commit fails"} :
           \* lines 148-159
           IF eTx = "nil" /\ db = "Begin fails"
           THEN /\ ExecReturn("done", "begin", {})
                /\ UNCHANGED <<eBegins, eN, eCommitted>>
           ELSE /\ eBegins' = IF eTx = "nil" THEN eBegins + 1 ELSE eBegins
                /\ IF eTx = "nil" /\ db = "Prepare fails"
                   THEN ExecReturn("done", "prepare", {}) /\ UNCHANGED <<eN, eCommitted>>
                   \* lines 164-176
                   ELSE IF kind = "wide"
                   THEN /\ ExecReturn("panicked", "panic: index out of range", txRows)
                        /\ UNCHANGED <<eN, eCommitted>>
                   ELSE IF kind = "convErr"
                   THEN ExecReturn("done", "convert", txRows) /\ UNCHANGED <<eN, eCommitted>>
                   \* lines 183-186
                   ELSE IF kind = "execErr"
                   THEN ExecReturn("done", "qry", txRows) /\ UNCHANGED <<eN, eCommitted>>
                   ELSE /\ eN' = eN + 1
                        \* lines 188-194
                        /\ IF eReturns /\ kind = "ok"
                           THEN /\ eTx' = "open"
                                /\ eTxRows' = txRows \cup {i}
                                /\ UNCHANGED <<ePc, eErr, eCommitted, eRolledBack>>
                           \* lines 195-209
                           ELSE IF eReturns
                           THEN /\ ExecReturn(IF eOneTx THEN "done" ELSE "loop",
                                              IF eOneTx THEN "returned" ELSE "nil",
                                              txRows \cup {i})
                                /\ UNCHANGED eCommitted
                           \* lines 210-216
                           ELSE IF ~CommitsEachRow(eOneTx)
                           THEN /\ eTx' = "open"
                                /\ eTxRows' = txRows \cup {i}
                                /\ UNCHANGED <<ePc, eErr, eCommitted, eRolledBack>>
                           ELSE IF db = "Commit fails"
                           THEN /\ ExecReturn("done", "commit", txRows \cup {i})
                                /\ UNCHANGED eCommitted
                           ELSE /\ eCommitted' = eCommitted \cup txRows \cup {i}
                                /\ eTx' = "nil"
                                /\ eTxRows' = {}
                                /\ UNCHANGED <<ePc, eErr, eRolledBack>>
  /\ UNCHANGED <<notExecVars, eReturns, eOneTx, eRows>>

\* the channel is closed: lines 218-225
DbExec_End ==
  /\ ePc = "loop"
  /\ ePos = Len(eRows)
  /\ IF eTx = "nil"
     THEN ePc' = "done" /\ UNCHANGED <<eErr, eTx, eTxRows, eCommitted, eRolledBack>>
     ELSE \E commitOK \in BOOLEAN :
            IF commitOK
            THEN /\ eCommitted' = eCommitted \cup eTxRows
                 /\ ePc' = "done"
                 /\ eTx' = "nil"
                 /\ eTxRows' = {}
                 /\ UNCHANGED <<eErr, eRolledBack>>
            ELSE ExecReturn("done", "commit", eTxRows) /\ UNCHANGED eCommitted
  /\ UNCHANGED <<notExecVars, eReturns, eOneTx, eRows, ePos, eBegins, eN>>

InitExec ==
  \E returns \in BOOLEAN, oneTx \in BOOLEAN, rows \in SeqsUpTo(RowKinds, MaxExecRows) :
    /\ InitLoad(1, 1, <<>>)
    /\ CtIdle
    /\ OpenIdle
    /\ ReadIdle
    /\ PureIdle
    /\ CopyIdle
    /\ PoolIdle
    /\ DumpIdle
    /\ ForeachIdle
    /\ FileIdle
    /\ QueueIdle
    /\ RemoteIdle
    /\ OneIdle
  /\ PoolIdle
    /\ eReturns = returns
    /\ eOneTx = oneTx
    /\ eRows = rows
    /\ ePc = "start"
    /\ ePos = 0
    /\ eTx = "nil"
    /\ eTxRows = {}
    /\ eCommitted = {}
    /\ eRolledBack = {}
    /\ eBegins = 0
    /\ eN = 0
    /\ eErr = "nil"

NextExec ==
  \/ DbExec_Start
  \/ DbExec_Row
  \/ DbExec_End

SpecExec == InitExec /\ [][NextExec]_vars

\* row i was given to the statement: its transaction could be begun
RowReached(i) == ~(i = ePos /\ eErr \in {"begin", "prepare"})
\* the call for row i succeeds: no error and, for a function, the OK value
RowSucceeds(i) ==
  RowReached(i) /\ (eRows[i] = "ok" \/ (~eReturns /\ eRows[i] = "notOk"))
\* the call for row i ends in a conversion error, an exec error or a value
\* that is not the OK value
RowFails(i) ==
  RowReached(i) /\ (eRows[i] \in {"convErr", "execErr"} \/ (eReturns /\ eRows[i] = "notOk"))

\* C27: with oneTx there is one transaction at most; it is committed only
\* when dbExec returns nil after every row succeeded; and a row that fails
\* ends the call with an error, the transaction rolled back and no row
\* committed.
C27_OneTxAllOrNothing ==
  eOneTx =>
    /\ eBegins <= 1
    /\ eCommitted # {} => /\ ePc = "done"
                          /\ eErr = "nil"
                          /\ eCommitted = 1..Len(eRows)
                          /\ \A i \in 1..Len(eRows) : RowSucceeds(i)
    /\ ePc = "done" => eTx = "nil"
    /\ \A i \in 1..ePos :
         RowFails(i) => /\ ePc = "done"
                        /\ ePos = i
                        /\ eErr # "nil"
                        /\ eTx = "nil"
                        /\ eCommitted = {}
                        /\ eRolledBack = { j \in 1..i : eRows[j] \in {"ok", "notOk"} }

\* a function whose third row returned another value than OK, in one
\* transaction: the two rows before it are rolled back
C27_Witness ==
  /\ eOneTx
  /\ eReturns
  /\ ePc = "done"
  /\ eRows = <<"ok", "ok", "notOk">>
  /\ eErr = "returned"
  /\ eRolledBack = {1, 2, 3}
  /\ eCommitted = {}

\* C29: without oneTx a row whose call succeeds is committed before the
\* next row is processed and is never rolled back, and after a value that
\* is not the OK value the loop goes on with no transaction open.
C29_EachRowCommitted ==
  ~eOneTx =>
    \A i \in 1..ePos :
      /\ RowSucceeds(i) => /\ i < ePos => i \in eCommitted
                           /\ i \in eRolledBack => i = ePos /\ eErr = "commit"
      /\ (RowFails(i) /\ eRows[i] = "notOk" /\ i = ePos) =>
           /\ eErr = "nil"
           /\ eTx = "nil"
           /\ ePc = "done" => ePos = Len(eRows)

(***************************************************************************)
(* tablecopy: Main prepares the destination tables before it copies.       *)
(***************************************************************************)
\* strings.EqualFold on names of these letters
EqualFold(a, b) ==
  /\ Len(a) = Len(b)
  /\ \A i \in 1..Len(a) : ToUpper(a[i]) = ToUpper(b[i])

copyTask(src, dst, truncate) == [Src |-> src, Dst |-> dst, Truncate |-> truncate]

\* line 209 with the names compared as they are written
IsOtherTableExact(dst, src, dstP, srcP) == dst # src \/ dstP # srcP

\* line 209: the destination is another table than the source
IsOtherTable(dst, src, dstP, srcP) == ~EqualFold(dst, src) \/ dstP # srcP

Stmt(kind, table, task) == [kind |-> kind, table |-> table, task |-> task]

\* one iteration of the loop of lines 202-222
TC_Prepare ==
  /\ tcPc = "prepare"
  /\ tcPos < Len(tcTasks)
  /\ tcPos' = tcPos + 1
  /\ LET k == tcPos + 1
         task == tcTasks[k]
         dst == IF task.Dst = <<>> THEN task.Src ELSE task.Dst
         create == Stmt("CREATE TABLE", dst, k)
         truncate == Stmt("TRUNCATE TABLE", dst, k)
         delete == Stmt("DELETE FROM", dst, k)
     IN  IF task.Src = <<>> \/ ~IsOtherTable(dst, task.Src, tcDstP, tcSrcP)
         THEN UNCHANGED <<tcPc, tcStmts, tcErr>>
         ELSE IF ~task.Truncate
         THEN tcStmts' = Append(tcStmts, create) /\ UNCHANGED <<tcPc, tcErr>>
         ELSE \E db \in {"ok", "TRUNCATE fails", "DELETE fails too"} :
                IF db = "ok"
                THEN /\ tcStmts' = tcStmts \o <<create, truncate>>
                     /\ UNCHANGED <<tcPc, tcErr>>
                ELSE /\ tcStmts' = tcStmts \o <<create, truncate, delete>>
                     /\ IF db = "TRUNCATE fails"
                        THEN UNCHANGED <<tcPc, tcErr>>
                        ELSE tcPc' = "done" /\ tcErr' = "TRUNCATE TABLE"
  /\ UNCHANGED <<notCopyVars, tcTasks, tcSrcP, tcDstP>>

\* the first loop is over: the tasks are copied (lines 223-247)
TC_Prepared ==
  /\ tcPc = "prepare"
  /\ tcPos = Len(tcTasks)
  /\ tcPc' = "copy"
  /\ UNCHANGED <<notCopyVars, tcTasks, tcSrcP, tcDstP, tcPos, tcStmts, tcErr>>

\* Tasks as lines 109-135 build them: Src may be empty (an empty line of
\* the standard input), Dst may be empty (the same name).
TableNames == { <<"T">>, <<"t">>, <<"u">> }
Tasks ==
  { copyTask(src, dst, truncate) :
      src \in { <<>>, <<"T">>, <<"u">> }, dst \in TableNames \cup { <<>> },
      truncate \in BOOLEAN }

InitTrunc ==
  \E tasks \in SeqsUpTo(Tasks, MaxTasks), dstP \in {"user@src", "user@dst"} :
    /\ InitLoad(1, 1, <<>>)
    /\ CtIdle
    /\ OpenIdle
    /\ ReadIdle
    /\ PureIdle
    /\ ExecIdle
    /\ PoolIdle
    /\ DumpIdle
    /\ ForeachIdle
    /\ FileIdle
    /\ QueueIdle
    /\ RemoteIdle
    /\ OneIdle
    /\ tcTasks = tasks
    /\ tcSrcP = "user@src"
    /\ tcDstP = dstP
    /\ tcPc = "prepare"
    /\ tcPos = 0
    /\ tcStmts = <<>>
    /\ tcErr = "nil"

NextTrunc ==
  \/ TC_Prepare
  \/ TC_Prepared

SpecTrunc == InitTrunc /\ [][NextTrunc]_vars

\* a name in upper case
UpperOf(name) == [i \in 1..Len(name) |-> ToUpper(name[i])]

\* C28: TRUNCATE TABLE or DELETE FROM is executed for a task only when the
\* task asks for truncation and its destination is not its own source
\* table: never when the names are equal apart from case and the two
\* connections are the same.
C28_NeverTruncatesOwnSource ==
  \A n1 \in 1..Len(tcStmts) :
    LET st == tcStmts[n1]
        task == tcTasks[st.task]
    IN  st.kind \in {"TRUNCATE TABLE", "DELETE FROM"} =>
          /\ task.Truncate
          /\ task.Src # <<>>
          /\ ~(/\ UpperOf(st.table) = UpperOf(task.Src)
               /\ tcDstP = tcSrcP)

\* on one connection, a task that copies T onto itself under the name t
\* with truncation was passed over, and a task onto another table was not
C28_Witness ==
  /\ tcPc = "copy"
  /\ tcDstP = tcSrcP
  /\ tcTasks = <<copyTask(<<"T">>, <<"t">>, TRUE), copyTask(<<"T">>, <<"u">>, TRUE)>>
  /\ tcStmts = <<Stmt("CREATE TABLE", <<"u">>, 2), Stmt("TRUNCATE TABLE", <<"u">>, 2)>>

(***************************************************************************)
(* The chunk buffers of load: who holds which buffer.                      *)
(***************************************************************************)
PoolWorkers == 1..MaxWorkers

\* a batch on rowsCh: rowsType, its Rows by buffer and length
Batch(buf, len) == [buf |-> buf, len |-> len]

\* the producer goes on with the chunk it has sent
NextChunkReused(got, sent) == sent

\* line 568: the producer's next chunk is the one chunkPool.Get gives
NextChunk(got, sent) == got

\* chunkPool.Get: a buffer the pool holds, or one New makes (lines 407, 531
\* and 568); the pool is free to make a new one while it holds some
PoolGets == bpPool \cup (IF bpAllocs < MaxBufs THEN {bpAllocs + 1} ELSE {})

\* where the producer goes when ReadRows has returned: lines 576-580 after
\* nil, the return of line 574 after an error
AfterReadRows(err, len) == IF err # "nil" THEN "done" ELSE IF len # 0 THEN "final" ELSE "close"

\* the callback of lines 533-570 for one data row, up to the send; under a
\* cancelled context the reader ends the loop, with the context's error or,
\* as ReadXLSXFile does, with nil
BP_Row ==
  /\ bpPc = "read"
  /\ bpRows > 0
  /\ bpRows' = bpRows - 1
  /\ IF bpCtxDone
     THEN /\ \E err \in {"nil", ContextCanceled} : bpPc' = AfterReadRows(err, bpLen)
          /\ UNCHANGED bpLen
     ELSE /\ bpLen' = bpLen + 1
          /\ bpPc' = IF bpLen + 1 < bpChunkSize THEN "read" ELSE "send"
  /\ UNCHANGED <<notPoolVars, bpChunkSize, bpChunk, bpCh, bpClosed, bpPool, bpAllocs,
                 bpCtxDone, bwPc, bwBuf, bwErr>>

\* the select of lines 560-566
BP_Send ==
  /\ bpPc = "send"
  /\ \/ /\ Len(bpCh) < MaxWorkers
        /\ bpCh' = Append(bpCh, Batch(bpChunk, bpLen))
        /\ bpPc' = "get"
     \/ /\ bpCtxDone
        /\ \E err \in {"nil", ContextCanceled} : bpPc' = AfterReadRows(err, bpLen)
        /\ UNCHANGED bpCh
  /\ UNCHANGED <<notPoolVars, bpRows, bpChunkSize, bpChunk, bpLen, bpClosed, bpPool,
                 bpAllocs, bpCtxDone, bwPc, bwBuf, bwErr>>

\* line 568
BP_Get ==
  /\ bpPc = "get"
  /\ \E got \in PoolGets :
       /\ bpChunk' = NextChunk(got, bpChunk)
       /\ bpPool' = bpPool \ {got}
       /\ bpAllocs' = IF got > bpAllocs THEN got ELSE bpAllocs
  /\ bpLen' = 0
  /\ bpPc' = "read"
  /\ UNCHANGED <<notPoolVars, bpRows, bpChunkSize, bpCh, bpClosed, bpCtxDone, bwPc, bwBuf,
                 bwErr>>

\* ReadRows has read the last row and returned nil
BP_EOF ==
  /\ bpPc = "read"
  /\ bpRows = 0
  /\ bpPc' = AfterReadRows("nil", bpLen)
  /\ UNCHANGED <<notPoolVars, bpRows, bpChunkSize, bpChunk, bpLen, bpCh, bpClosed, bpPool,
                 bpAllocs, bpCtxDone, bwPc, bwBuf, bwErr>>

\* line 577: the last chunk is sent
BP_Final ==
  /\ bpPc = "final"
  /\ Len(bpCh) < MaxWorkers
  /\ bpCh' = Append(bpCh, Batch(bpChunk, bpLen))
  /\ bpPc' = "close"
  /\ UNCHANGED <<notPoolVars, bpRows, bpChunkSize, bpChunk, bpLen, bpClosed, bpPool,
                 bpAllocs, bpCtxDone, bwPc, bwBuf, bwErr>>

\* line 580
BP_Close ==
  /\ bpPc = "close"
  /\ bpClosed' = TRUE
  /\ bpPc' = "done"
  /\ UNCHANGED <<notPoolVars, bpRows, bpChunkSize, bpChunk, bpLen, bpCh, bpPool, bpAllocs,
                 bpCtxDone, bwPc, bwBuf, bwErr>>

\* lines 427-436 and 517-520: a batch is received, or the range ends
BW_Recv(w) ==
  /\ bwPc[w] = "recv"
  /\ IF bpCh # <<>>
     THEN /\ bpCh' = Tail(bpCh)
          /\ bwBuf' = [bwBuf EXCEPT ![w] = Head(bpCh).buf]
          /\ bwPc' = [bwPc EXCEPT ![w] = IF bpCtxDone THEN "done" ELSE "read"]
     ELSE /\ bpClosed
          /\ bwPc' = [bwPc EXCEPT ![w] = "done"]
          /\ UNCHANGED <<bpCh, bwBuf>>
  /\ UNCHANGED <<notPoolVars, bpRows, bpChunkSize, bpPc, bpChunk, bpLen, bpClosed, bpPool,
                 bpAllocs, bpCtxDone, bwErr>>

\* lines 437-475: the rows of the chunk are read into cols and converted
BW_Read(w) ==
  /\ bwPc[w] = "read"
  /\ \E converted \in BOOLEAN :
       IF converted
       THEN bwPc' = [bwPc EXCEPT ![w] = "exec"] /\ UNCHANGED bpCtxDone
       ELSE bwPc' = [bwPc EXCEPT ![w] = "done"] /\ bpCtxDone' = TRUE
  /\ UNCHANGED <<notPoolVars, bpRows, bpChunkSize, bpPc, bpChunk, bpLen, bpCh, bpClosed,
                 bpPool, bpAllocs, bwBuf, bwErr>>

\* line 477
BW_Exec(w) ==
  /\ bwPc[w] = "exec"
  /\ \E err \in {"nil", "exec"} : bwErr' = [bwErr EXCEPT ![w] = err]
  /\ bwPc' = [bwPc EXCEPT ![w] = "put"]
  /\ UNCHANGED <<notPoolVars, bpRows, bpChunkSize, bpPc, bpChunk, bpLen, bpCh, bpClosed,
                 bpPool, bpAllocs, bpCtxDone, bwBuf>>

\* lines 478-481
BW_Put(w) ==
  /\ bwPc[w] = "put"
  /\ bpPool' = bpPool \cup {bwBuf[w]}
  /\ bwPc' = [bwPc EXCEPT ![w] = "after"]
  /\ UNCHANGED <<notPoolVars, bpRows, bpChunkSize, bpPc, bpChunk, bpLen, bpCh, bpClosed,
                 bpAllocs, bpCtxDone, bwBuf, bwErr>>

\* lines 482-515: len(chunk) is added to inserted, or the rows are executed
\* again one by one out of the converted columns and the error is returned
BW_After(w) ==
  /\ bwPc[w] = "after"
  /\ IF bwErr[w] = "nil"
     THEN bwPc' = [bwPc EXCEPT ![w] = "recv"] /\ UNCHANGED bpCtxDone
     ELSE bwPc' = [bwPc EXCEPT ![w] = "done"] /\ bpCtxDone' = TRUE
  /\ UNCHANGED <<notPoolVars, bpRows, bpChunkSize, bpPc, bpChunk, bpLen, bpCh, bpClosed,
                 bpPool, bpAllocs, bwBuf, bwErr>>

InitPool ==
  \E rows \in 0..MaxPoolRows, cs \in 1..MaxChunk :
    /\ InitLoad(1, 1, <<>>)
    /\ CtIdle
    /\ OpenIdle
    /\ ReadIdle
    /\ PureIdle
    /\ ExecIdle
    /\ CopyIdle
    /\ DumpIdle
    /\ ForeachIdle
    /\ FileIdle
    /\ QueueIdle
    /\ RemoteIdle
    /\ OneIdle
    /\ bpRows = rows
    /\ bpChunkSize = cs
    /\ bpPc = "read"
    /\ bpChunk = 1
    /\ bpLen = 0
    /\ bpCh = <<>>
    /\ bpClosed = FALSE
    /\ bpPool = {}
    /\ bpAllocs = 1
    /\ bpCtxDone = FALSE
    /\ bwPc = [w \in PoolWorkers |-> "recv"]
    /\ bwBuf = [w \in PoolWorkers |-> 0]
    /\ bwErr = [w \in PoolWorkers |-> "nil"]

NextPool ==
  \/ BP_Row
  \/ BP_Send
  \/ BP_Get
  \/ BP_EOF
  \/ BP_Final
  \/ BP_Close
  \/ \E w \in PoolWorkers : BW_Recv(w)
  \/ \E w \in PoolWorkers : BW_Read(w)
  \/ \E w \in PoolWorkers : BW_Exec(w)
  \/ \E w \in PoolWorkers : BW_Put(w)
  \/ \E w \in PoolWorkers : BW_After(w)

SpecPool == InitPool /\ [][NextPool]_vars

\* who may touch the rows of buffer b: the producer while it fills and
\* sends its chunk, the channel, a worker from the receive to the Put, the
\* pool
ProducerOwns(b) == bpPc \in {"read", "send", "final"} /\ bpChunk = b
OnChannel(b) == { i \in 1..Len(bpCh) : bpCh[i].buf = b }
WorkersOwning(b) == { w \in PoolWorkers : bwPc[w] \in {"read", "exec", "put"} /\ bwBuf[w] = b }
Owners(b) ==
  (IF ProducerOwns(b) THEN 1 ELSE 0) + Cardinality(OnChannel(b))
    + Cardinality(WorkersOwning(b)) + (IF b \in bpPool THEN 1 ELSE 0)

\* C30: every buffer has one owner at most: a batch that was sent is not the
\* chunk the producer fills until a worker has put its buffer into the pool,
\* and a buffer in the pool is not one a worker still reads.
C30_SingleOwner == \A b \in 1..bpAllocs : Owners(b) <= 1

\* the producer fills a buffer again that a worker has put into the pool,
\* while the other worker reads another one
C30_Witness ==
  /\ bpPc = "send"
  /\ bpLen = 1
  /\ bpChunk = 1
  /\ bpAllocs >= 2
  /\ \E w \in PoolWorkers : bwPc[w] = "after" /\ bwBuf[w] = 1
  /\ \E w \in PoolWorkers : bwPc[w] = "read" /\ bwBuf[w] = 2

(***************************************************************************)
(* Column.Converter and ValInt (write.go): a NUMBER column that is scanned *)
(* as a string.  Numbers are sequences of decimal digits with an optional  *)
(* sign, as the driver writes them.                                        *)
(***************************************************************************)
DigitSeq == <<"0","1","2","3","4","5","6","7","8","9">>
DigitVal(ch) == (CHOOSE i \in 1..10 : DigitSeq[i] = ch) - 1

\* a <= b for two digit sequences of one length
RECURSIVE DigitsLeq(_, _)
DigitsLeq(a, b) ==
  IF a = <<>> THEN TRUE
  ELSE IF DigitVal(Head(a)) # DigitVal(Head(b)) THEN DigitVal(Head(a)) < DigitVal(Head(b))
  ELSE DigitsLeq(Tail(a), Tail(b))

RECURSIVE StripZeros(_)
StripZeros(d) == IF Len(d) > 1 /\ Head(d) = "0" THEN StripZeros(Tail(d)) ELSE d

\* 1<<63 - 1 and 1<<63
MaxInt64 == <<"9","2","2","3","3","7","2","0","3","6","8","5","4","7","7","5","8","0","7">>
MinInt64Abs == <<"9","2","2","3","3","7","2","0","3","6","8","5","4","7","7","5","8","0","8">>

Signed(v) == v # <<>> /\ Head(v) \in {"-", "+"}
Magnitude(v) == IF Signed(v) THEN Tail(v) ELSE v

\* strconv.ParseInt(v, 10, 64): the error
ParseInt(v) ==
  LET d == StripZeros(Magnitude(v))
      cutoff == IF Signed(v) /\ Head(v) = "-" THEN MinInt64Abs ELSE MaxInt64
  IN  IF d = <<>> \/ \E i \in 1..Len(d) : d[i] \notin Digits THEN "invalid syntax"
      ELSE IF Len(d) > Len(cutoff) \/ (Len(d) = Len(cutoff) /\ ~DigitsLeq(d, cutoff))
           THEN "value out of range"
      ELSE "nil"

\* strconv.FormatInt of the int64 ParseInt gave for v
FormatInt(v) ==
  LET d == StripZeros(Magnitude(v))
  IN  IF Signed(v) /\ Head(v) = "-" /\ d # <<"0">> THEN <<"-">> \o d ELSE d

\* Column.Converter (lines 137-160) for the kinds of a number column
Converter(kind, dbType, precision, scale) ==
  IF kind = "Float64" THEN "ValFloat"
  ELSE IF kind = "Int64" THEN "ValInt"
  ELSE IF kind = "String"
  THEN IF dbType = tNUMBER /\ ~(precision = 0 /\ scale = 0)
       THEN IF scale = 0 /\ precision <= 19 THEN "ValInt" ELSE "ValFloat"
       ELSE "ValNumber"
  ELSE "ValString"

\* DumpCSV asks for the converter of the column (lines 35-40)
Col_Converter ==
  /\ dPc = "convert"
  /\ dConv' = Converter(dKind, dDbType, dPrecision, dScale)
  /\ dPc' = "scan"
  /\ UNCHANGED <<notDumpVars, dKind, dDbType, dPrecision, dScale, dValue, dValid, dErr,
                 dOut>>

\* rows.Scan into the pointer of a ValInt (lines 61-63, 226): sql.NullInt64
\* sets Valid and converts the string with strconv.ParseInt
ValInt_Scan ==
  /\ dPc = "scan"
  /\ dConv = "ValInt"
  /\ dValid' = TRUE
  /\ dErr' = ParseInt(dValue)
  /\ dPc' = IF ParseInt(dValue) = "nil" THEN "string" ELSE "failed"
  /\ UNCHANGED <<notDumpVars, dKind, dDbType, dPrecision, dScale, dValue, dConv, dOut>>

\* ValInt.String (lines 220-225)
ValInt_String ==
  /\ dPc = "string"
  /\ dConv = "ValInt"
  /\ dOut' = IF dValid THEN FormatInt(dValue) ELSE <<>>
  /\ dPc' = "done"
  /\ UNCHANGED <<notDumpVars, dKind, dDbType, dPrecision, dScale, dValue, dConv, dValid,
                 dErr>>

\* the integers of k digits the runs take: the least, the greatest, and
\* the ones around 1<<63
Nines(k) == [i \in 1..k |-> "9"]
OneZeros(k) == [i \in 1..k |-> IF i = 1 THEN "1" ELSE "0"]
IntegersOf(k) ==
  LET pos == {Nines(k), OneZeros(k)} \cup (IF k = 19 THEN {MaxInt64, MinInt64Abs} ELSE {})
  IN  pos \cup { <<"-">> \o d : d \in pos }

InitDump ==
  \E kind \in {"String", "Int64", "Float64"}, dbType \in {tNUMBER, tVARCHAR2},
     precision \in 0..MaxPrecision, scale \in {-2, 0, 2}, digits \in 1..MaxPrecision :
    \E v \in IntegersOf(digits) :
      /\ precision # 0 => digits <= precision
      /\ InitLoad(1, 1, <<>>)
      /\ CtIdle
      /\ OpenIdle
      /\ ReadIdle
      /\ PureIdle
      /\ ExecIdle
      /\ CopyIdle
      /\ PoolIdle
      /\ ForeachIdle
      /\ FileIdle
      /\ QueueIdle
      /\ RemoteIdle
      /\ OneIdle
      /\ dKind = kind
      /\ dDbType = dbType
      /\ dPrecision = precision
      /\ dScale = scale
      /\ dValue = v
      /\ dPc = "convert"
      /\ dConv = ""
      /\ dValid = FALSE
      /\ dErr = "nil"
      /\ dOut = <<>>

NextDump ==
  \/ Col_Converter
  \/ ValInt_Scan
  \/ ValInt_String

SpecDump == InitDump /\ [][NextDump]_vars

\* a NUMBER column of scale 0 and precision 1 to 19 that is scanned as a
\* string
StringScannedInteger ==
  dKind = "String" /\ dDbType = tNUMBER /\ dScale = 0 /\ dPrecision \in 1..19

\* C33: a string-scanned NUMBER column of scale 0 and precision 1 to 19 gets
\* the 64-bit integer renderer, and every value the column holds is scanned
\* into it without leaving the signed 64-bit range and rendered as it was.
C33_IntegerColumnFits ==
  (StringScannedInteger /\ dPc # "convert") =>
    /\ dConv = "ValInt"
    /\ dPc # "failed"
    /\ dErr = "nil"
    /\ dPc = "done" => dOut = dValue

(***************************************************************************)
(* csvdbforeach: the callback Main gives to Config.ReadRows.               *)
(***************************************************************************)
\* a value of a row is the empty string
IsEmpty(v) == IF rFormat = "csv" THEN v = EmptyStr ELSE v = ""
EmptyValue == IF rFormat = "csv" THEN EmptyStr ELSE ""

\* lines 134-144: Main maps the row it was given by the columns of
\* cfg.Columns(), the indices ReadRows has given the reader
Remapped(cols, values) ==
  IF Len(cols) > 0
  THEN [i \in 1..Len(cols) |->
          IF cols[i] < Len(values) THEN values[cols[i] + 1] ELSE EmptyValue]
  ELSE values

\* the callback of lines 122-153 on the invocation the reader has made: an
\* empty row is dropped, the others are mapped and sent unless the
\* callback returned the context's error
Main_Callback ==
  /\ fSeen < Len(rCalls)
  /\ ~fPanicked
  /\ LET row == rCalls[fSeen + 1]
     IN  IF \A i \in 1..Len(row.Values) : IsEmpty(row.Values[i])
         THEN fSeen' = fSeen + 1 /\ UNCHANGED <<fRows, fPanicked>>
         ELSE IF \E i \in 1..Len(rColumns) : rColumns[i] < 0
         THEN fPanicked' = TRUE /\ UNCHANGED <<fSeen, fRows>>
         ELSE /\ fSeen' = fSeen + 1
              /\ fRows' = IF fSeen + 1 = Len(rCalls) /\ rFnErr = ContextCanceled
                          THEN fRows
                          ELSE Append(fRows, [Line |-> row.Line,
                                              Values |-> Remapped(rColumns, row.Values),
                                              rec |-> row.rec])
              /\ UNCHANGED fPanicked
  /\ UNCHANGED <<notForeachVars>>

\* the reader goes on when the callback has returned; the callback returns
\* nil or the context's error
Returned == fSeen = Len(rCalls)
ReturnsCtxErr == rFnErr' # FnFailed

FE_CSV_Next == Returned /\ CSV_Next /\ ReturnsCtxErr
FE_XLS_Next == Returned /\ XLS_Next /\ ReturnsCtxErr
FE_XLSX_Next == Returned /\ XLSX_Next /\ ReturnsCtxErr

InitForeach == InitRead

NextForeach ==
  \/ CtxCancel
  \/ CSV_Start
  \/ FE_CSV_Next
  \/ XLS_Start
  \/ FE_XLS_Next
  \/ XLSX_Start
  \/ FE_XLSX_Next
  \/ Main_Callback

SpecForeach == InitForeach /\ [][NextForeach]_vars

\* C35: with a column list c1..ck the i-th value of every row sent to the
\* procedure call is the source record's field number c_i, the empty string
\* when the record has fewer fields: the list is applied once.
C35_ProjectedOnce ==
  \A k \in 1..Len(fRows) :
    rColumns # <<>> =>
      /\ Len(fRows[k].Values) = Len(rColumns)
      /\ \A i \in 1..Len(rColumns) :
           fRows[k].Values[i] =
             IF rColumns[i] >= 0 /\ rColumns[i] < Width(fRows[k].rec)
             THEN SourceField(fRows[k].rec, rColumns[i])
             ELSE EmptyValue

(***************************************************************************)
(* ReadFile (read.go) on a workbook: every sheet is handed to the reader.  *)
(***************************************************************************)
\* the values of `range xlFile.GetSheetMap()`: the keys of the map
KeysOfSheetMap(book) == DOMAIN GetSheetMap(book)

\* a range over the positions of the sheets
PositionsOf(book) == 0..(Len(book) - 1)

\* lines 674-703: the file is opened and its sheets are counted; the range
\* of line 691 gives the indices 0..NumSheets()-1, the one of line 703 the
\* keys of the sheet map
RF_Open ==
  /\ rfPc = "open"
  /\ rfKeys' = IF rFormat = "xls" THEN PositionsOf(rBook) ELSE KeysOfSheetMap(rBook)
  /\ rfPc' = "loop"
  /\ UNCHANGED <<notFileVars, rfRead, rfErrs>>

\* lines 691-692 and 703-704: the next index of the range is given to the
\* reader; a range over an int is in order, one over a map in any order
RF_Sheet ==
  /\ rfPc = "loop"
  /\ \E i \in rfKeys :
       /\ rFormat = "xls" => \A j \in rfKeys : i <= j
       /\ rfKeys' = rfKeys \ {i}
       /\ rSheet' = i
  /\ rfPc' = "sheet"
  /\ rPc' = "start"
  /\ rSrc' = <<>>
  /\ rN' = 0
  /\ rLine' = 0
  /\ rColNames' = <<>>
  /\ rHasColNames' = FALSE
  /\ rCalls' = <<>>
  /\ rErr' = "nil"
  /\ rSheetName' = ""
  /\ rFnErr' = "nil"
  /\ UNCHANGED <<notReadFileVars, rfRead, rfErrs, rFormat, rText, rDelim, rColumns, rSkip,
                 rComma, rBook, rCtxDone>>

\* lines 692-694 and 704-706: the reader has returned
RF_SheetDone ==
  /\ rfPc = "sheet"
  /\ rPc \in {"done", "panicked"}
  /\ rfRead' = Append(rfRead, [key |-> rSheet, name |-> rSheetName, calls |-> rCalls])
  /\ rfErrs' = IF rErr # "nil" THEN Append(rfErrs, Wrapf("sheet", rErr)) ELSE rfErrs
  /\ rfPc' = IF rPc = "panicked" THEN "panicked" ELSE "loop"
  /\ UNCHANGED <<notFileVars, rfKeys>>

\* line 720: the range is over
RF_Return ==
  /\ rfPc = "loop"
  /\ rfKeys = {}
  /\ rfPc' = "returned"
  /\ UNCHANGED <<notFileVars, rfKeys, rfRead, rfErrs>>

InitFile ==
  \E book \in Books, format \in {"xls", "xlsx"} :
    /\ InitLoad(1, 1, <<>>)
    /\ CtIdle
    /\ OpenIdle
    /\ PureIdle
    /\ ExecIdle
    /\ CopyIdle
    /\ PoolIdle
    /\ DumpIdle
    /\ ForeachIdle
    /\ QueueIdle
    /\ RemoteIdle
    /\ OneIdle
    /\ rFormat = format
    /\ rSrc = <<>>
    /\ rText = <<>>
    /\ rDelim = <<>>
    /\ rColumns = <<>>
    /\ rSkip = 0
    /\ rPc = "idle"
    /\ rComma = ""
    /\ rN = 0
    /\ rLine = 0
    /\ rColNames = <<>>
    /\ rHasColNames = FALSE
    /\ rCalls = <<>>
    /\ rErr = "nil"
    /\ rBook = book
    /\ rSheet = 0
    /\ rSheetName = ""
    /\ rCtxDone = FALSE
    /\ rFnErr = "nil"
    /\ rfPc = "open"
    /\ rfKeys = {}
    /\ rfRead = <<>>
    /\ rfErrs = <<>>

NextFile ==
  \/ RF_Open
  \/ RF_Sheet
  \/ CtxCancel
  \/ XLS_Start
  \/ XLS_Next
  \/ XLSX_Start
  \/ XLSX_Next
  \/ RF_SheetDone
  \/ RF_Return

SpecFile == InitFile /\ [][NextFile]_vars

\* the reader calls that read the sheet of that name
ReadsOf(name) == { k \in 1..Len(rfRead) : rfRead[k].name = name }

\* C36: when ReadFile has returned without an error and without a
\* cancellation, every sheet of the workbook was read by exactly one reader
\* call, which gave the callback the rows of that sheet under its name.
C36_EverySheetOnce ==
  (rfPc = "returned" /\ rfErrs = <<>> /\ ~rCtxDone) =>
    \A s \in 1..Len(rBook) :
      /\ Cardinality(ReadsOf(rBook[s].Name)) = 1
      /\ \A k \in ReadsOf(rBook[s].Name) :
           [c \in 1..Len(rfRead[k].calls) |-> rfRead[k].calls[c].rec] = rBook[s].rows

(***************************************************************************)
(* queueNext (csvdump): the iterator over the messages of a queue.  A      *)
(* message is told by its Object: "nil" for none, else the payload of the  *)
(* object.  MaxMessages stands for the 16 of make([]godror.Message, 16).   *)
(***************************************************************************)
NilObject == "nil"
Payloads == { "a", "CLOSE" }

\* slices.Delete(ms, i, i+1), with i counted from 1
DeleteAt(ms, i) == SubSeq(ms, 1, i - 1) \o SubSeq(ms, i + 1, Len(ms))

\* lines 38-42 of queue.go (40-45 of part_003): the loop goes on at i+1
\* after it has deleted the message at i
RECURSIVE DeleteNilFrom(_, _)
DeleteNilFrom(ms, i) ==
  IF i > Len(ms) THEN ms
  ELSE IF ms[i] = NilObject THEN DeleteNilFrom(DeleteAt(ms, i), i + 1)
  ELSE DeleteNilFrom(ms, i + 1)

\* a message is put into the queue
Q_Enqueue ==
  /\ qPc \notin {"ended", "panicked", "start"}
  /\ qEnqueued < MaxEnqueued
  /\ \E m \in Payloads \cup {NilObject} : qQueue' = Append(qQueue, m)
  /\ qEnqueued' = qEnqueued + 1
  /\ UNCHANGED <<notQueueVars, qInitLen, qMessages, qOff, qPc, qReturned, qErr, qCtxDone>>

\* the context is cancelled
Q_Cancel ==
  /\ qPc \notin {"ended", "panicked", "start"}
  /\ ~qCtxDone
  /\ qCtxDone' = TRUE
  /\ UNCHANGED <<notQueueVars, qInitLen, qQueue, qEnqueued, qMessages, qOff, qPc, qReturned,
                 qErr>>

\* queueNext (lines 23-28 of queue.go: no message, off 0; lines 25-30 of
\* part_003: 16 messages, off at their end)
QN_Make ==
  /\ qPc = "start"
  /\ qMessages' = [i \in 1..qInitLen |-> NilObject]
  /\ qOff' = qInitLen
  /\ qPc' = "idle"
  /\ UNCHANGED <<notQueueVars, qInitLen, qQueue, qEnqueued, qReturned, qErr, qCtxDone>>

\* the iterator is called (line 30 of queue.go)
QN_Call ==
  /\ qPc = "idle"
  /\ qPc' = IF qOff >= Len(qMessages) THEN "dequeue" ELSE "deliver"
  /\ UNCHANGED <<notQueueVars, qInitLen, qQueue, qEnqueued, qMessages, qOff, qReturned, qErr,
                 qCtxDone>>

\* one turn of the loop of lines 31-54 of queue.go.  Dequeue fills at most
\* len(messages) messages; what it does with a slice of no message is not
\* told by this repository: it returns 0, or an error, or panics.
QN_Dequeue ==
  /\ qPc = "dequeue"
  /\ \/ \E cnt \in 1..Min(Len(qMessages), Len(qQueue)) :
          LET kept == DeleteNilFrom(SubSeq(qQueue, 1, cnt), 1)
          IN  /\ qQueue' = SubSeq(qQueue, cnt + 1, Len(qQueue))
              /\ qMessages' = kept
              /\ IF kept = <<>>
                 THEN UNCHANGED <<qOff, qPc>>
                 ELSE qOff' = 0 /\ qPc' = "deliver"
              /\ UNCHANGED qErr
     \/ /\ Min(Len(qMessages), Len(qQueue)) = 0
        /\ IF qCtxDone
           THEN qPc' = "ended" /\ qErr' = ContextCanceled
           ELSE UNCHANGED <<qPc, qErr>>
        /\ UNCHANGED <<qQueue, qMessages, qOff>>
     \/ /\ qPc' = "ended"
        /\ qErr' = "dequeue"
        /\ UNCHANGED <<qQueue, qMessages, qOff>>
     \/ /\ qMessages = <<>>
        /\ qPc' = "panicked"
        /\ qErr' = "panic: index out of range"
        /\ UNCHANGED <<qQueue, qMessages, qOff>>
  /\ UNCHANGED <<notQueueVars, qInitLen, qEnqueued, qReturned, qCtxDone>>

\* lines 57-83 of queue.go: the payload of messages[off]
QN_Deliver ==
  /\ qPc = "deliver"
  /\ qOff' = qOff + 1
  /\ IF qMessages[qOff + 1] = NilObject
     THEN qPc' = "panicked" /\ qErr' = "panic: nil pointer dereference"
          /\ UNCHANGED qReturned
     ELSE \/ /\ qPc' = "ended"
             /\ qErr' = "get BLOB"
             /\ UNCHANGED qReturned
          \/ IF qMessages[qOff + 1] = "CLOSE"
             THEN qPc' = "ended" /\ qErr' = "EOF" /\ UNCHANGED qReturned
             ELSE /\ qPc' = "idle"
                  /\ qReturned' = Append(qReturned, qMessages[qOff + 1])
                  /\ qErr' = "nil"
  /\ UNCHANGED <<notQueueVars, qInitLen, qQueue, qEnqueued, qMessages, qCtxDone>>

InitQueue ==
  \E initLen \in {0, MaxMessages} :
    /\ InitLoad(1, 1, <<>>)
    /\ CtIdle
    /\ OpenIdle
    /\ ReadIdle
    /\ PureIdle
    /\ ExecIdle
    /\ CopyIdle
    /\ PoolIdle
    /\ DumpIdle
    /\ ForeachIdle
    /\ FileIdle
    /\ RemoteIdle
    /\ OneIdle
    /\ qInitLen = initLen
    /\ qQueue = <<>>
    /\ qEnqueued = 0
    /\ qMessages = <<>>
    /\ qOff = 0
    /\ qPc = "start"
    /\ qReturned = <<>>
    /\ qErr = "nil"
    /\ qCtxDone = FALSE

NextQueue ==
  \/ Q_Enqueue
  \/ Q_Cancel
  \/ QN_Make
  \/ QN_Call
  \/ QN_Dequeue
  \/ QN_Deliver

SpecQueue == InitQueue /\ [][NextQueue]_vars

\* C37: when a Dequeue has given messages and those without an object were
\* removed, no message without an object is left in the buffer, and the
\* iterator never dereferences a nil Object.
C37_NoNilObjectLeft ==
  /\ qPc = "deliver" => \A k \in 1..Len(qMessages) : qMessages[k] # NilObject
  /\ qErr # "panic: nil pointer dereference"

\* C38: the slice the iterator offers to Dequeue always has room for a
\* message: its length is never zero.
C38_SliceHasRoom ==
  qPc = "dequeue" => Len(qMessages) > 0

(***************************************************************************)
(* executeCommands (csvdump/remote.go): the commands that build a          *)
(* workbook.  A command is told by its name and the style name it carries; *)
(* its other arguments are well-formed.  A map of style ids is a sequence  *)
(* of name and id pairs, the later pair overriding the earlier.            *)
(***************************************************************************)
Command(name, style) == [c |-> name, style |-> style]

\* styles[name] of a Go map: 0 when the name is no key
RECURSIVE StyleOf(_, _)
StyleOf(m, name) ==
  IF m = <<>> THEN 0
  ELSE IF m[Len(m)].name = name THEN m[Len(m)].id
  ELSE StyleOf(SubSeq(m, 1, Len(m) - 1), name)

\* line 47: styles := make(map[string]int), made for every command
MakeStyles == <<>>

StyleCommands == { "setCellStyle", "setColStyle", "setRowStyle" }

\* the context is cancelled
XC_Cancel ==
  /\ xcPc = "loop"
  /\ ~xcCtxDone
  /\ xcCtxDone' = TRUE
  /\ UNCHANGED <<notRemoteVars, xcCommands, xcPc, xcStyles, xcCreated, xcApplied, xcWritten,
                 xcExecuted>>

\* one turn of the loop of lines 37-164, and lines 165-168 when next
\* returns io.EOF.  f.NewStyle numbers the styles it makes from 1.
XC_Command ==
  /\ xcPc = "loop"
  /\ IF xcCtxDone
     THEN /\ xcPc' = "failed"
          /\ UNCHANGED <<xcCommands, xcStyles, xcCreated, xcApplied, xcWritten, xcExecuted>>
     ELSE IF xcCommands = <<>>
     THEN /\ xcWritten' = TRUE
          /\ xcPc' = "returned"
          /\ UNCHANGED <<xcCommands, xcStyles, xcCreated, xcApplied, xcExecuted>>
     ELSE LET cmd == Head(xcCommands)
              styles == MakeStyles
              id == Len(xcCreated) + 1
          IN  /\ xcCommands' = Tail(xcCommands)
              /\ UNCHANGED xcWritten
              /\ IF cmd.c = "newStyle"
                 THEN /\ xcStyles' = Append(styles, [name |-> cmd.style, id |-> id])
                      /\ xcCreated' = Append(xcCreated, [name |-> cmd.style, id |-> id])
                      /\ xcExecuted' = xcExecuted + 1
                      /\ UNCHANGED <<xcPc, xcApplied>>
                 ELSE IF cmd.c \in StyleCommands
                 THEN /\ xcStyles' = styles
                      /\ xcApplied' = Append(xcApplied,
                                             [c |-> cmd.c, name |-> cmd.style,
                                              id |-> StyleOf(styles, cmd.style),
                                              created |-> xcCreated])
                      /\ xcExecuted' = xcExecuted + 1
                      /\ UNCHANGED <<xcPc, xcCreated>>
                 ELSE IF cmd.c = "newSheet"
                 THEN /\ xcStyles' = styles
                      /\ xcExecuted' = xcExecuted + 1
                      /\ UNCHANGED <<xcPc, xcCreated, xcApplied>>
                 ELSE /\ xcStyles' = styles
                      /\ xcPc' = "failed"
                      /\ UNCHANGED <<xcCreated, xcApplied, xcExecuted>>
  /\ UNCHANGED <<notRemoteVars, xcCtxDone>>

StyleNames == { "header", "body" }
Commands ==
  { Command("newStyle", nm) : nm \in StyleNames }
    \cup { Command(c, nm) : c \in StyleCommands, nm \in StyleNames }
    \cup { Command("newSheet", ""), Command("noSuchCommand", "") }

InitRemote ==
  \E cmds \in SeqsUpTo(Commands, MaxCommands) :
    /\ InitLoad(1, 1, <<>>)
    /\ CtIdle
    /\ OpenIdle
    /\ ReadIdle
    /\ PureIdle
    /\ ExecIdle
    /\ CopyIdle
    /\ PoolIdle
    /\ DumpIdle
    /\ ForeachIdle
    /\ FileIdle
    /\ QueueIdle
    /\ OneIdle
    /\ xcCommands = cmds
    /\ xcPc = "loop"
    /\ xcStyles = <<>>
    /\ xcCreated = <<>>
    /\ xcApplied = <<>>
    /\ xcWritten = FALSE
    /\ xcExecuted = 0
    /\ xcCtxDone = FALSE

NextRemote ==
  \/ XC_Cancel
  \/ XC_Command

SpecRemote == InitRemote /\ [][NextRemote]_vars

\* C39: a style command that names a style an earlier newStyle command has
\* registered applies the id that command got, and the workbook is written
\* only when every command of the sequence was executed without error.
C39_RegisteredStyleApplied ==
  /\ \A k \in 1..Len(xcApplied) :
       StyleOf(xcApplied[k].created, xcApplied[k].name) # 0 =>
         xcApplied[k].id = StyleOf(xcApplied[k].created, xcApplied[k].name)
  /\ xcWritten => (xcPc = "returned" /\ xcCommands = <<>>)

(***************************************************************************)
(* tablecopy's One (tablecopy.go): the copy of one table, called by Main   *)
(* with the Log it has made.                                               *)
(***************************************************************************)
DefaultBatchSize == 8192

\* Main, lines 78-95: Log stays nil unless -v is given
Main_Log ==
  /\ onPc = "main"
  /\ onLog' = IF onVerbose THEN "func" ELSE "nil"
  /\ onPc' = "call"
  /\ UNCHANGED <<notOneVars, onVerbose, onSrcRows, onBatchSize, onBatch, onN, onInserted,
                 onLogged>>

\* a call of Log: a call of a nil function panics
CallLog(log, next) ==
  IF log = "nil"
  THEN /\ onPc' = "panicked"
       /\ UNCHANGED onLogged
  ELSE /\ onPc' = next
       /\ onLogged' = onLogged + 1

\* line 257: Log("msg", "One", "task", task)
One_Enter ==
  /\ onPc = "call"
  /\ CallLog(onLog, "columns")
  /\ UNCHANGED <<notOneVars, onVerbose, onLog, onSrcRows, onBatchSize, onBatch, onN,
                 onInserted>>

\* lines 258-270: the columns of both tables
One_Columns ==
  /\ onPc = "columns"
  /\ \E ok \in BOOLEAN : onPc' = IF ok THEN "prepare" ELSE "failed"
  /\ UNCHANGED <<notOneVars, onVerbose, onLog, onSrcRows, onBatchSize, onBatch, onN,
                 onInserted, onLogged>>

\* lines 272-321: the statements, the prepared insert and the guarded logs
One_Prepare ==
  /\ onPc = "prepare"
  /\ \E ok \in BOOLEAN :
       IF ok
       THEN /\ onPc' = "query"
            /\ onLogged' = IF onLog # "nil" THEN onLogged + 2 ELSE onLogged
       ELSE /\ onPc' = "failed"
            /\ UNCHANGED onLogged
  /\ UNCHANGED <<notOneVars, onVerbose, onLog, onSrcRows, onBatchSize, onBatch, onN,
                 onInserted>>

\* lines 323-344: the batch size and the source query
One_Query ==
  /\ onPc = "query"
  /\ onBatchSize' = IF onBatchSize < 1 THEN DefaultBatchSize ELSE onBatchSize
  /\ \E ok \in BOOLEAN : onPc' = IF ok THEN "rows" ELSE "failed"
  /\ UNCHANGED <<notOneVars, onVerbose, onLog, onSrcRows, onBatch, onN, onInserted, onLogged>>

\* lines 356-372: one row: scanned, added to the batch, the full batch inserted
One_Row ==
  /\ onPc = "rows"
  /\ onSrcRows > 0
  /\ onSrcRows' = onSrcRows - 1
  /\ \E scanned \in BOOLEAN, execOk \in BOOLEAN :
       IF ~scanned
       THEN /\ onPc' = "failed"
            /\ UNCHANGED <<onBatch, onN, onInserted>>
       ELSE IF onBatch + 1 # onBatchSize
       THEN /\ onBatch' = onBatch + 1
            /\ UNCHANGED <<onPc, onN, onInserted>>
       ELSE IF execOk
       THEN /\ onInserted' = onInserted + onBatch + 1
            /\ onN' = onN + onBatch + 1
            /\ onBatch' = 0
            /\ UNCHANGED onPc
       ELSE /\ onPc' = "failed"
            /\ onBatch' = onBatch + 1
            /\ UNCHANGED <<onN, onInserted>>
  /\ UNCHANGED <<notOneVars, onVerbose, onLog, onBatchSize, onLogged>>

\* lines 373-380: the rest of the rows inserted, n returned
One_Return ==
  /\ onPc = "rows"
  /\ onSrcRows = 0
  /\ IF onBatch = 0
     THEN /\ onPc' = "returned"
          /\ UNCHANGED <<onN, onInserted>>
     ELSE \E execOk \in BOOLEAN :
            IF execOk
            THEN /\ onInserted' = onInserted + onBatch
                 /\ onN' = onN + onBatch
                 /\ onPc' = "returned"
            ELSE /\ onPc' = "failed"
                 /\ UNCHANGED <<onN, onInserted>>
  /\ UNCHANGED <<notOneVars, onVerbose, onLog, onSrcRows, onBatchSize, onBatch, onLogged>>

InitOne ==
  \E verbose \in BOOLEAN, rows \in 0..MaxCopyRows, batchSize \in 0..MaxBatchSize :
    /\ InitLoad(1, 1, <<>>)
    /\ CtIdle
    /\ OpenIdle
    /\ ReadIdle
    /\ PureIdle
    /\ ExecIdle
    /\ CopyIdle
    /\ PoolIdle
    /\ DumpIdle
    /\ ForeachIdle
    /\ FileIdle
    /\ QueueIdle
    /\ RemoteIdle
    /\ onVerbose = verbose
    /\ onLog = "unset"
    /\ onPc = "main"
    /\ onSrcRows = rows
    /\ onBatchSize = batchSize
    /\ onBatch = 0
    /\ onN = 0
    /\ onInserted = 0
    /\ onLogged = 0

NextOne ==
  \/ Main_Log
  \/ One_Enter
  \/ One_Columns
  \/ One_Prepare
  \/ One_Query
  \/ One_Row
  \/ One_Return

SpecOne == InitOne /\ [][NextOne]_vars

\* C40: with Log nil, One calls no nil function, and nothing but a failure
\* of the database keeps it from returning.
C40_NilLogNeverCalled ==
  onLog = "nil" => (onPc # "panicked" /\ onLogged = 0)

====
